---- MODULE Spec2Model ----
(***************************************************************************)
(* Model of the warpforge plot executor (warpforge-executors/src/plot.rs)  *)
(* and of the formula runner (warpforge-executors/src/formula.rs).         *)
(*                                                                         *)
(* Spec         run_plot: PlotGraph::new, PlotGraph::validate and the      *)
(*              Kahn traversal of PlotExecutor::run with run_step.         *)
(* SpecFormula  run_formula: Formula::run (input lowering), the bounded    *)
(*              event channel and the spawned event consumer.              *)
(*                                                                         *)
(* Strings that the code builds with format! are sequences of fragments;   *)
(* a SandboxPort is a sequence of characters.  An IndexMap is a sequence   *)
(* of [key, val] entries in insertion order, an IndexSet a sequence        *)
(* without duplicates.                                                     *)
(***************************************************************************)
EXTENDS Integers, Sequences, FiniteSets, TLC

VARIABLES
    plot,            \* the Plot handed to run_plot
    graph,           \* PlotGraph built by PlotGraph::new
    validation,      \* what PlotGraph::validate and its two checks returned
    pc,              \* position inside run_plot / PlotExecutor::run
    parents,         \* PlotExecutor::run: mutable clone of graph.parents
    next_steps,      \* PlotExecutor::run: stack of ready steps
    completed_count, \* PlotExecutor::run: steps completed so far
    step_name,       \* step popped by the running loop iteration
    temp_dir,        \* state of the per-invocation TempDir
    result,          \* what run_plot returned
    trace,           \* history: run_step starts/returns, run_formula and pack_outputs calls
    formula,         \* run_formula: the FormulaAndContext being run
    fpc,             \* run_formula: position of the caller task
    lowered,         \* Formula::run: outcome of the input loop
    emitted,         \* events the executor has sent so far, in order
    channel,         \* mpsc channel buffer (FIFO)
    sender_open,     \* the Sender (outbox) has not been dropped
    receiver_open,   \* the Receiver has not been dropped
    consumer,        \* state of the spawned event_handler task
    handled,         \* history: events the consumer received, in order
    terminal,        \* lines the consumer forwarded with logln!
    captured,        \* value the event_handler task returned
    exec_result,     \* what executor.run(...) returned
    fresult,         \* what run_formula returned
    ersatz,          \* files and directories under the executor's ersatz_dir
    fs_ops,          \* history: file-system changes made by setup_script, in order
    setup,           \* Formula::run: outcome of the action match (command, mounts)
    json_start,      \* JSON round trip: what it started from (a value or a document)
    json_value,      \* the FormulaAndContext in memory, if any
    json_text,       \* the JSON document, if any
    jpc,             \* JSON round trip: the conversion that comes next
    sending,         \* the executor waits in outbox.send(event).await
    attempts,        \* history: events the executor has passed to outbox.send, in order
    source,          \* validate_formula: the text it is given (`formula`)
    vpc,             \* validate_formula: position
    modified_formula,\* validate_formula: the repaired copy of the text, if one was made
    errors,          \* validate_formula: the ValidationErrors recorded so far
    serde_err,       \* validate_formula: `err`, the syntax error the loop looks at
    repairs,         \* history: offset and former byte of every write on line 66
    vresult          \* what validate_formula returned

plotVars == <<plot, graph, validation, pc, parents, next_steps, completed_count, step_name,
              temp_dir, result, trace>>
formulaVars == <<formula, fpc, lowered, emitted, channel, sender_open, receiver_open,
                 consumer, handled, terminal, captured, exec_result, fresult>>
scriptVars == <<ersatz, fs_ops, setup>>
jsonVars == <<json_start, json_value, json_text, jpc>>
channelVars == <<sending, attempts>>
validateVars == <<source, vpc, modified_formula, errors, serde_err, repairs, vresult>>
vars == <<plotVars, formulaVars, scriptVars, jsonVars, channelVars, validateVars>>

----------------------------------------------------------------------------
(* Bounds *)

MaxSteps == 3
MaxPipes == 3
MaxFormulaInputs == 2
MaxEvents == 34
MaxScriptLines == 2
MaxGraphSteps == 4
MaxAfterExit == 1
MaxNesting == 22

----------------------------------------------------------------------------
(* Generic helpers *)

Last(s) == s[Len(s)]
Front(s) == SubSeq(s, 1, Len(s) - 1)
Contains(s, x) == \E i \in 1..Len(s) : s[i] = x

RECURSIVE SeqFilter(_, _)
SeqFilter(s, S) ==
    IF s = <<>> THEN <<>>
    ELSE IF s[1] \in S THEN <<s[1]>> \o SeqFilter(Tail(s), S)
    ELSE SeqFilter(Tail(s), S)

\* [T]::join(sep): the elements with sep between them, as fragments
RECURSIVE JoinStr(_, _)
JoinStr(names, sep) ==
    IF names = <<>> THEN <<>>
    ELSE IF Len(names) = 1 THEN <<names[1]>>
    ELSE <<names[1], sep>> \o JoinStr(Tail(names), sep)

\* subsets of S with at most k elements
RECURSIVE KSubsets(_, _)
KSubsets(S, k) ==
    IF k = 0 THEN {{}}
    ELSE LET smaller == KSubsets(S, k - 1)
         IN  smaller \cup {T \cup {x} : T \in smaller, x \in S}

\* the elements of a set of integers in ascending order
RECURSIVE SortedSeq(_)
SortedSeq(S) ==
    IF S = {} THEN <<>>
    ELSE LET m == CHOOSE x \in S : \A y \in S : x <= y
         IN  <<m>> \o SortedSeq(S \ {m})

----------------------------------------------------------------------------
(* indexmap::IndexSet and indexmap::IndexMap as used by PlotGraph *)

SetInsert(s, x) == IF Contains(s, x) THEN s ELSE Append(s, x)

IndexOf(s, x) == CHOOSE i \in 1..Len(s) : s[i] = x

\* mutant: the last element is dropped whatever the index (pop for swap_remove)
SwapRemoveAtMut(s, i) == Front(s)

\* swap_remove: the last element takes the place of the removed one
SwapRemoveAt(s, i) ==
    IF i = Len(s) THEN Front(s)
    ELSE Front([s EXCEPT ![i] = s[Len(s)]])

\* IndexSet::remove(value)
SetRemove(s, x) == IF Contains(s, x) THEN SwapRemoveAt(s, IndexOf(s, x)) ELSE s

MapKeys(m) == [i \in 1..Len(m) |-> m[i].key]
MapHas(m, k) == \E i \in 1..Len(m) : m[i].key = k
MapIndex(m, k) == CHOOSE i \in 1..Len(m) : m[i].key = k
MapGet(m, k) == m[MapIndex(m, k)].val
MapSet(m, k, v) == [m EXCEPT ![MapIndex(m, k)].val = v]

\* mutant: an entry that exists already is left as it is
EntryInsertMut(m, k, x) ==
    IF MapHas(m, k) THEN m
    ELSE Append(m, [key |-> k, val |-> <<x>>])

\* map.entry(k).or_insert_with(IndexSet::new).insert(x)
EntryInsert(m, k, x) ==
    IF MapHas(m, k) THEN MapSet(m, k, SetInsert(MapGet(m, k), x))
    ELSE Append(m, [key |-> k, val |-> <<x>>])

\* IndexMap::remove(key) is swap_remove
MapRemove(m, k) == IF MapHas(m, k) THEN SwapRemoveAt(m, MapIndex(m, k)) ELSE m

----------------------------------------------------------------------------
(* Errors of the crate: Error::<kind> { msg, cause } *)

NoCause == <<>>
Err(kind, msg, cause) == [kind |-> kind, msg |-> msg, cause |-> cause]
\* a cause that is a plain string (String converted into a boxed error)
StrCause(frags) == <<Err("String", frags, NoCause)>>

ResOk == [status |-> "ok", err |-> <<>>]
ResErr(e) == [status |-> "err", err |-> <<e>>]
ResPanic == [status |-> "panic", err |-> <<>>]
ResNone == [status |-> "none", err |-> <<>>]

----------------------------------------------------------------------------
(* Values of the data model (warpforge_api::plot, warpforge_api::formula) *)

NameTable == <<"a", "b", "c", "d", "e", "f", "g", "h">>

\* Option<T>: <<>> is None, <<x>> is Some(x)
None == <<>>
Some(x) == <<x>>

PlotImage == [reference |-> "registry/plot-image", readonly |-> TRUE]
StepImage == [reference |-> "registry/step-image", readonly |-> TRUE]

OUTPUTS_DIR == "outputs"
TempPath == "<temp>"

\* PlotInput and FormulaInput values; value is a sequence of string fragments
Input(kind, mode, value, name, label) ==
    [kind |-> kind, mode |-> mode, value |-> value, step_name |-> name, label |-> label]
Pipe(name, label) == Input("Pipe", "", <<>>, name, label)
Literal(v) == Input("Literal", "", <<v>>, "", "")
Mount(mode, path) == Input("Mount", mode, path, "", "")

\* Action: Echo, Execute(ActionExecute) and Script(ActionScript)
Action(kind, command, interpreter, contents, network) ==
    [kind |-> kind, command |-> command, interpreter |-> interpreter, contents |-> contents,
     network |-> network]
ActionEcho == Action("Echo", <<>>, "", <<>>, None)
ActionExecute(command, network) == Action("Execute", command, "", <<>>, network)
ActionScript(interpreter, contents, network) == Action("Script", <<>>, interpreter, contents, network)

----------------------------------------------------------------------------
(* PlotGraph::new *)

NewGraph == [status |-> "ok", nodes |-> <<>>, parents |-> <<>>, children |-> <<>>]

\* mutant: a pipe with an empty step_name is not skipped
RECURSIVE AddInputsMut(_, _, _, _)
AddInputsMut(g, name, inputs, j) ==
    IF j > Len(inputs) THEN g
    ELSE LET input == inputs[j].input IN
         IF input.kind # "Pipe"
         THEN AddInputsMut(g, name, inputs, j + 1)
         ELSE AddInputsMut([g EXCEPT
                              !.parents = EntryInsert(g.parents, name, input.step_name),
                              !.children = EntryInsert(g.children, input.step_name, name)],
                           name, inputs, j + 1)

\* the loop over protoformula.inputs for the step `name`, from input j on
RECURSIVE AddInputs(_, _, _, _)
AddInputs(g, name, inputs, j) ==
    IF j > Len(inputs) THEN g
    ELSE LET input == inputs[j].input IN
         IF input.kind # "Pipe" \/ input.step_name = ""
         THEN AddInputs(g, name, inputs, j + 1)
         ELSE AddInputs([g EXCEPT
                           !.parents = EntryInsert(g.parents, name, input.step_name),
                           !.children = EntryInsert(g.children, input.step_name, name)],
                        name, inputs, j + 1)

\* the loop over plot.steps, from step i on; a node's &Step is the step's index
RECURSIVE AddSteps(_, _, _)
AddSteps(g, steps, i) ==
    IF i > Len(steps) THEN g
    ELSE LET step == steps[i]
             withNode == [g EXCEPT !.nodes = Append(g.nodes, [key |-> step.name, val |-> i])]
         IN  IF step.kind = "Plot"
             THEN [withNode EXCEPT !.status = "panic"]
             ELSE AddSteps(AddInputs(withNode, step.name, step.inputs, 1), steps, i + 1)

\* mutant: the first output of the plot is entered as a child of the step it names
PlotGraphNewMut(p) ==
    LET g == AddSteps(NewGraph, p.steps, 1) IN
    IF p.outputs = <<>> \/ g.status # "ok" THEN g
    ELSE [g EXCEPT !.children = EntryInsert(g.children, p.outputs[1].val.step_name,
                                             p.outputs[1].key)]

PlotGraphNew(p) == AddSteps(NewGraph, p.steps, 1)

----------------------------------------------------------------------------
(* PlotGraph::validate_dependencies_exist *)

UnknownStepMsg(origin, name) ==
    <<"invalid plot: step(s) '">> \o JoinStr(origin, "', '")
        \o <<"' reference(s) unknown step '", name, "'">>

RECURSIVE DependenciesLoop(_, _)
DependenciesLoop(g, i) ==
    IF i > Len(g.children) THEN ResOk
    ELSE LET name == g.children[i].key IN
         IF ~MapHas(g.nodes, name)
         THEN ResErr(Err("SystemSetupCauseless",
                         UnknownStepMsg(g.children[i].val, name), NoCause))
         ELSE DependenciesLoop(g, i + 1)

validate_dependencies_exist(g) == DependenciesLoop(g, 1)

----------------------------------------------------------------------------
(* PlotGraph::validate_no_cycles *)

\* mutant: a node without an entry in parents is not taken as ready
RECURSIVE NoParentNodesMut(_, _)
NoParentNodesMut(keys, ps) ==
    IF keys = <<>> THEN <<>>
    ELSE IF MapHas(ps, keys[1]) /\ MapGet(ps, keys[1]) = <<>>
         THEN <<keys[1]>> \o NoParentNodesMut(Tail(keys), ps)
         ELSE NoParentNodesMut(Tail(keys), ps)

\* nodes.keys().filter(|name| parents.get(name) is None or empty)
RECURSIVE NoParentNodes(_, _)
NoParentNodes(keys, ps) ==
    IF keys = <<>> THEN <<>>
    ELSE IF ~MapHas(ps, keys[1]) \/ MapGet(ps, keys[1]) = <<>>
         THEN <<keys[1]>> \o NoParentNodes(Tail(keys), ps)
         ELSE NoParentNodes(Tail(keys), ps)

\* parents.iter().filter(|(_, p)| !p.is_empty()).map(|(name, _)| name)
RECURSIVE NonEmptyKeys(_)
NonEmptyKeys(ps) ==
    IF ps = <<>> THEN <<>>
    ELSE IF ps[1].val # <<>> THEN <<ps[1].key>> \o NonEmptyKeys(Tail(ps))
    ELSE NonEmptyKeys(Tail(ps))

CycleMsg(cycles) ==
    <<"invalid plot: the step(s) '">> \o JoinStr(cycles, "', '") \o <<"' contain(s) cycle(s)">>

\* mutant: a ready child goes to the bottom of no_parents
RECURSIVE RelaxValidateBottomMut(_, _, _, _)
RelaxValidateBottomMut(children, i, node, st) ==
    IF i > Len(children) \/ st.panic THEN st
    ELSE LET child == children[i] IN
         IF ~MapHas(st.parents, child) THEN [st EXCEPT !.panic = TRUE]
         ELSE LET before == MapGet(st.parents, child)
                  removed == Contains(before, node)
                  after == SetRemove(before, node)
                  ps == MapSet(st.parents, child, after)
              IN  IF removed /\ after = <<>>
                  THEN RelaxValidateBottomMut(children, i + 1, node,
                           [st EXCEPT !.parents = MapRemove(ps, child),
                                      !.ready = <<child>> \o st.ready])
                  ELSE RelaxValidateBottomMut(children, i + 1, node,
                                              [st EXCEPT !.parents = ps])

\* for &child in children { ... } of validate_no_cycles, from child i on;
\* st = [parents, ready, panic]; indexing parents[child] without an entry panics
RECURSIVE RelaxValidate(_, _, _, _)
RelaxValidate(children, i, node, st) ==
    IF i > Len(children) \/ st.panic THEN st
    ELSE LET child == children[i] IN
         IF ~MapHas(st.parents, child) THEN [st EXCEPT !.panic = TRUE]
         ELSE LET before == MapGet(st.parents, child)
                  removed == Contains(before, node)
                  after == SetRemove(before, node)
                  ps == MapSet(st.parents, child, after)
              IN  IF removed /\ after = <<>>
                  THEN RelaxValidate(children, i + 1, node,
                           [st EXCEPT !.parents = MapRemove(ps, child),
                                      !.ready = Append(st.ready, child)])
                  ELSE RelaxValidate(children, i + 1, node, [st EXCEPT !.parents = ps])

NoCyclesResult(res, order, cycles, iters) ==
    [res |-> res, order |-> order, cycles |-> cycles, iters |-> iters]

\* mutant: the loop goes on while no_parents is not empty, whatever order holds
RECURSIVE NoCyclesLoopMut(_, _, _, _, _)
NoCyclesLoopMut(g, order, ps, no_parents, iters) ==
    IF no_parents = <<>>
    THEN LET cycles == NonEmptyKeys(ps)
         IN  IF cycles = <<>> /\ Len(order) >= Len(g.nodes)
             THEN NoCyclesResult(ResOk, order, <<>>, iters + 1)
             ELSE NoCyclesResult(ResErr(Err("SystemSetupCauseless", CycleMsg(cycles), NoCause)),
                                 order, cycles, iters + 1)
    ELSE LET node == Last(no_parents)
             order2 == Append(order, node)
             st0 == [parents |-> ps, ready |-> Front(no_parents), panic |-> FALSE]
         IN  IF ~MapHas(g.children, node)
             THEN NoCyclesLoopMut(g, order2, ps, st0.ready, iters + 1)
             ELSE LET st == RelaxValidate(MapGet(g.children, node), 1, node, st0)
                  IN  IF st.panic THEN NoCyclesResult(ResPanic, order2, <<>>, iters + 1)
                      ELSE NoCyclesLoopMut(g, order2, st.parents, st.ready, iters + 1)

\* while order.len() < self.nodes.len() { ... }
RECURSIVE NoCyclesLoop(_, _, _, _, _)
NoCyclesLoop(g, order, ps, no_parents, iters) ==
    IF Len(order) >= Len(g.nodes) THEN NoCyclesResult(ResOk, order, <<>>, iters)
    ELSE IF no_parents = <<>>
    THEN LET cycles == NonEmptyKeys(ps)
         IN  NoCyclesResult(ResErr(Err("SystemSetupCauseless", CycleMsg(cycles), NoCause)),
                            order, cycles, iters + 1)
    ELSE LET node == Last(no_parents)
             order2 == Append(order, node)
             st0 == [parents |-> ps, ready |-> Front(no_parents), panic |-> FALSE]
         IN  IF ~MapHas(g.children, node)
             THEN NoCyclesLoop(g, order2, ps, st0.ready, iters + 1)
             ELSE LET st == RelaxValidate(MapGet(g.children, node), 1, node, st0)
                  IN  IF st.panic THEN NoCyclesResult(ResPanic, order2, <<>>, iters + 1)
                      ELSE NoCyclesLoop(g, order2, st.parents, st.ready, iters + 1)

validate_no_cycles(g) ==
    NoCyclesLoop(g, <<>>, g.parents, NoParentNodes(MapKeys(g.nodes), g.parents), 0)

NotRun == NoCyclesResult(ResNone, <<>>, <<>>, 0)

\* PlotGraph::validate: [deps, cycles, res]
validate(g) ==
    LET deps == validate_dependencies_exist(g) IN
    IF deps.status # "ok" THEN [deps |-> deps, cycles |-> NotRun, res |-> deps]
    ELSE LET cyc == validate_no_cycles(g)
         IN  [deps |-> deps, cycles |-> cyc, res |-> cyc.res]

----------------------------------------------------------------------------
(* run_formula: how the executor's result and the captured exit code become *)
(* the result (formula.rs, lines 46-58)                                      *)

DigitTable == <<"0", "1", "2", "3", "4", "5", "6", "7", "8", "9">>

RECURSIVE Digits(_)
Digits(n) ==
    IF n < 10 THEN <<DigitTable[n + 1]>>
    ELSE Digits(n \div 10) \o <<DigitTable[(n % 10) + 1]>>

\* format!("{code}") of an i32
Decimal(n) == IF n < 0 THEN <<"-">> \o Digits(-n) ELSE Digits(n)

ExitCodeCause(code) == IF code = None THEN <<"None">> ELSE Decimal(code[1])

\* mutant: a stream that closed without an exit code counts as success
RunFormulaReturnMut(exec, code) ==
    IF exec.status # "ok" THEN exec
    ELSE IF code = Some(0) \/ code = None THEN ResOk
    ELSE ResErr(Err("SystemRuntimeError", <<"container terminated non-zero exit code">>,
                    StrCause(ExitCodeCause(code))))

\* exec is what executor.run(..).await returned, code what the event handler returned
RunFormulaReturn(exec, code) ==
    IF exec.status # "ok" THEN exec
    ELSE IF code = Some(0) THEN ResOk
    ELSE ResErr(Err("SystemRuntimeError", <<"container terminated non-zero exit code">>,
                    StrCause(ExitCodeCause(code))))

\* container outcomes drawn for a plot step
ExitCodes == {Some(0), Some(7), None}
ExecResults == {ResOk, ResErr(Err("SystemSetupError", <<"failed to obtain image">>, NoCause))}
RunFormulaOutcomes == {RunFormulaReturn(e, c) : e \in ExecResults, c \in ExitCodes}

----------------------------------------------------------------------------
(* PlotExecutor::run_step *)

\* mutant: the two joins are made in the other order
StepPathMut(name) == <<TempPath, OUTPUTS_DIR, name>>

\* self.temp_dir.path().join(step_name) and step_dir.join(OUTPUTS_DIR)
StepPath(name) == <<TempPath, name, OUTPUTS_DIR>>

\* Option::or
OptionOr(a, b) == IF a # None THEN a ELSE b

\* self.plot.image.as_ref().or(step.image.as_ref())
ChooseImage(plotImage, stepImage) == OptionOr(plotImage, stepImage)

\* mutant: the message does not name the step
ImageRequiredMsgMut(name) == <<"invalid plot: image required">>

ImageRequiredMsg(name) == <<"invalid plot (step '", name, "'): image required">>
PacktypeMsg(name) == <<"invalid plot (step '", name, "'): output packtype has to be 'none'">>
FailedStepMsg(name) == <<"failed step '", name, "'">>

\* mutant: the failure of run_formula is dropped
WrapFormulaResultMut(name, rf) == IF rf.status = "panic" THEN ResPanic ELSE ResOk

\* run_formula(..).await.map_err(..)? on lines 157-161
WrapFormulaResult(name, rf) ==
    IF rf.status = "err" THEN ResErr(Err("SystemRuntimeError", FailedStepMsg(name), rf.err))
    ELSE rf

\* the closure of step.inputs.iter().map(..): [panic, input]
LowerPlotInput(input) ==
    CASE input.kind \in {"Mount", "Literal", "Ware"} ->
            [panic |-> FALSE, input |-> Input(input.kind, input.mode, input.value, "", "")]
      [] input.kind = "Pipe" /\ input.step_name = "" ->
            [panic |-> TRUE, input |-> input]
      [] input.kind = "Pipe" /\ input.step_name # "" ->
            [panic |-> FALSE,
             input |-> Mount("ReadOnly", <<TempPath, input.step_name, OUTPUTS_DIR, input.label>>)]
      [] OTHER -> [panic |-> TRUE, input |-> input]

LowerPlotInputs(inputs) ==
    [j \in 1..Len(inputs) |-> [port |-> inputs[j].port,
                                input |-> LowerPlotInput(inputs[j].input).input]]

\* mutant: any packtype that is present is rejected, "none" included
BadPacktypeMut(outputs) == \E j \in 1..Len(outputs) : outputs[j].val.packtype # None

BadPacktype(outputs) ==
    \E j \in 1..Len(outputs) : outputs[j].val.packtype # None /\ outputs[j].val.packtype # Some("none")

\* run_step(step_name) when run_formula would return rf: [res, formula, output_path]
RunStep(p, g, name, rf) ==
    LET step == p.steps[MapGet(g.nodes, name)]
        image == ChooseImage(p.image, step.image)
        built == [image |-> image[1], inputs |-> LowerPlotInputs(step.inputs),
                  action |-> step.action, outputs |-> step.outputs]
        out(res, f) == [res |-> res, formula |-> f, output_path |-> StepPath(name)]
    IN  IF step.kind # "Protoformula" THEN out(ResPanic, None)
        ELSE IF image = None
        THEN out(ResErr(Err("SystemSetupCauseless", ImageRequiredMsg(name), NoCause)), None)
        ELSE IF \E j \in 1..Len(step.inputs) : LowerPlotInput(step.inputs[j].input).panic
        THEN out(ResPanic, None)
        ELSE IF BadPacktype(step.outputs)
        THEN out(ResErr(Err("SystemSetupCauseless", PacktypeMsg(name), NoCause)), None)
        ELSE out(WrapFormulaResult(name, rf), Some(built))

----------------------------------------------------------------------------
(* PlotExecutor::run: child relaxation and plot outputs *)

\* mutant: a child is pushed as soon as one parent is removed (is_empty() not asked)
RECURSIVE RelaxRunMut(_, _, _, _)
RelaxRunMut(children, i, node, st) ==
    IF i > Len(children) \/ st.panic THEN st
    ELSE LET child == children[i] IN
         IF ~MapHas(st.parents, child) THEN [st EXCEPT !.panic = TRUE]
         ELSE LET before == MapGet(st.parents, child)
                  removed == Contains(before, node)
                  ps == MapSet(st.parents, child, SetRemove(before, node))
              IN  IF removed
                  THEN RelaxRunMut(children, i + 1, node,
                           [st EXCEPT !.parents = ps, !.ready = Append(st.ready, child)])
                  ELSE RelaxRunMut(children, i + 1, node, [st EXCEPT !.parents = ps])

\* mutant: a ready child goes to the bottom of the stack
RECURSIVE RelaxRunBottomMut(_, _, _, _)
RelaxRunBottomMut(children, i, node, st) ==
    IF i > Len(children) \/ st.panic THEN st
    ELSE LET child == children[i] IN
         IF ~MapHas(st.parents, child) THEN [st EXCEPT !.panic = TRUE]
         ELSE LET before == MapGet(st.parents, child)
                  removed == Contains(before, node)
                  after == SetRemove(before, node)
                  ps == MapSet(st.parents, child, after)
              IN  IF removed /\ after = <<>>
                  THEN RelaxRunBottomMut(children, i + 1, node,
                           [st EXCEPT !.parents = ps, !.ready = <<child>> \o st.ready])
                  ELSE RelaxRunBottomMut(children, i + 1, node, [st EXCEPT !.parents = ps])

\* for &child in children { ... } of run, from child i on; st = [parents, ready, panic]
RECURSIVE RelaxRun(_, _, _, _)
RelaxRun(children, i, node, st) ==
    IF i > Len(children) \/ st.panic THEN st
    ELSE LET child == children[i] IN
         IF ~MapHas(st.parents, child) THEN [st EXCEPT !.panic = TRUE]
         ELSE LET before == MapGet(st.parents, child)
                  removed == Contains(before, node)
                  after == SetRemove(before, node)
                  ps == MapSet(st.parents, child, after)
              IN  IF removed /\ after = <<>>
                  THEN RelaxRun(children, i + 1, node,
                           [st EXCEPT !.parents = ps, !.ready = Append(st.ready, child)])
                  ELSE RelaxRun(children, i + 1, node, [st EXCEPT !.parents = ps])

\* mutant: the host path ends with the output's name, not with the pipe's label
IntermediateOutputsMut(p) ==
    [j \in 1..Len(p.outputs) |->
        [name |-> p.outputs[j].key,
         host_path |-> <<TempPath, p.outputs[j].val.step_name, OUTPUTS_DIR,
                         p.outputs[j].key>>,
         packtype |-> "Tar"]]

\* self.plot.outputs.iter().map(..).collect()
IntermediateOutputs(p) ==
    [j \in 1..Len(p.outputs) |->
        [name |-> p.outputs[j].key,
         host_path |-> <<TempPath, p.outputs[j].val.step_name, OUTPUTS_DIR,
                         p.outputs[j].val.label>>,
         packtype |-> "Tar"]]

----------------------------------------------------------------------------
(* The plots run_plot is given *)

\* what an input of a step refers to: -1 is a literal, 0 a pipe with an empty
\* step_name, k >= 1 a pipe from the step named NameTable[k]
SrcCodes == (-1)..MaxSteps

PlotInputOf(code) ==
    IF code = -1 THEN Literal("v")
    ELSE IF code = 0 THEN Pipe("", "out")
    ELSE Pipe(NameTable[code], "out")

PortOf(code) ==
    <<"/", "i", "n", IF code = -1 THEN "-" ELSE IF code = 0 THEN "_" ELSE NameTable[code]>>

StepInputs(E, i) ==
    LET codes == SortedSeq({e[2] : e \in {x \in E : x[1] = i}})
    IN  [j \in 1..Len(codes) |-> [port |-> PortOf(codes[j]), input |-> PlotInputOf(codes[j])]]

GatherOut == [key |-> "out", val |-> [from |-> <<"/", "o", "u", "t">>, packtype |-> None]]

MakeStep(i, img, E) ==
    [name |-> NameTable[i], kind |-> "Protoformula", image |-> img,
     inputs |-> StepInputs(E, i), action |-> ActionEcho, outputs |-> <<GatherOut>>]

PlotOutputChoices == {<<>>, <<[key |-> "result", val |-> Pipe(NameTable[1], "out")]>>}

\* a step that differs from MakeStep: its gather directives name a packtype,
\* or it is a sub-plot (Step::Plot)
StepVariants == {"PackNone", "PackTar", "SecondPackTar", "SubPlot"}

GatherWith(label, packtype) ==
    [key |-> label, val |-> [from |-> <<"/", "o", "u", "t">>, packtype |-> packtype]]

VariantOutputs(variant) ==
    CASE variant = "PackNone" -> <<GatherWith("out", Some("none"))>>
      [] variant = "PackTar" -> <<GatherWith("out", Some("tar"))>>
      [] variant = "SecondPackTar" -> <<GatherWith("out", None), GatherWith("log", Some("tar"))>>
      [] OTHER -> <<>>

MakeStepVariant(i, img, E, variant) ==
    IF variant = "SubPlot"
    THEN [name |-> NameTable[i], kind |-> "Plot", image |-> None,
          inputs |-> <<>>, action |-> ActionEcho, outputs |-> <<>>]
    ELSE [MakeStep(i, img, E) EXCEPT !.outputs = VariantOutputs(variant)]

\* the plot of MakePlot (without step images) with step k replaced by a variant
MakePlotVariant(n, pimg, E, outs, k, variant) ==
    [image |-> pimg,
     steps |-> [i \in 1..n |-> IF i = k THEN MakeStepVariant(i, None, E, variant)
                                ELSE MakeStep(i, None, E)],
     outputs |-> outs]

TwoPlotOutputs ==
    <<[key |-> "second", val |-> Pipe(NameTable[2], "out")],
      [key |-> "first", val |-> Pipe(NameTable[1], "out")]>>

\* an output that pipes from a step no plot of the model has
GhostPlotOutput == <<[key |-> "ghost", val |-> Pipe(Last(NameTable), "out")]>>

\* the plot of n steps named NameTable[1..n] in insertion order whose inputs
\* are the pairs E; names beyond n are unknown steps
MakePlot(n, pimg, simg, E, outs) ==
    [image |-> pimg, steps |-> [i \in 1..n |-> MakeStep(i, simg[i], E)], outputs |-> outs]

\* plots of at most MaxSteps steps with at most MaxPipes inputs in total;
\* such plots with one step replaced by a variant; and plots of at most
\* MaxGraphSteps steps that take the plot's image and pipe from each other only
PlotInit ==
    \/ \E n \in 0..MaxSteps :
          \E pimg \in {None, Some(PlotImage)}, simg \in [1..n -> {None, Some(StepImage)}],
             E \in KSubsets((1..n) \X SrcCodes, MaxPipes), outs \in PlotOutputChoices :
              plot = MakePlot(n, pimg, simg, E, outs)
    \/ \E n \in 1..MaxSteps :
          \E pimg \in {None, Some(PlotImage)}, E \in KSubsets((1..n) \X SrcCodes, MaxPipes),
             k \in 1..n, variant \in StepVariants :
              plot = MakePlotVariant(n, pimg, E, <<>>, k, variant)
    \/ \E n \in 1..MaxGraphSteps :
          \E E \in KSubsets((1..n) \X (1..n), MaxPipes), outs \in {<<>>, TwoPlotOutputs, GhostPlotOutput} :
              plot = MakePlot(n, Some(PlotImage), [i \in 1..n |-> None], E, outs)

StepNames(p) == {p.steps[i].name : i \in 1..Len(p.steps)}

----------------------------------------------------------------------------
(* run_plot and PlotExecutor::run as a state machine *)

\* history events: "run_step" (run_step is called), "run_formula" (run_formula was called
\* with formula f and returned res), "ok"/"err"/"panic" (run_step returned res) and
\* "pack_outputs" (pack_outputs was called with outs and returned res); a "run_formula"
\* event also holds the output_path of the Context that run_formula was given
Event(ev, step, f, outs, res) ==
    [ev |-> ev, step |-> step, formula |-> f, outputs |-> outs, res |-> res,
     output_path |-> None]

NoGraph == [status |-> "none", nodes |-> <<>>, parents |-> <<>>, children |-> <<>>]
NoValidation == [deps |-> ResNone, cycles |-> NotRun, res |-> ResNone]

PlotIdle ==
    /\ graph = NoGraph
    /\ validation = NoValidation
    /\ pc = "start"
    /\ parents = <<>>
    /\ next_steps = <<>>
    /\ completed_count = 0
    /\ step_name = ""
    /\ temp_dir = "none"
    /\ result = ResNone
    /\ trace = <<>>

\* mutant: the directory is kept when its owner goes away
DropTempDirMut == "exists"

\* the PlotExecutor built on lines 29-34 is a temporary of run_plot's last
\* expression: when run() has returned it is dropped, and TempDir's Drop
\* removes the directory
DropTempDir == "removed"

\* run_plot, lines 19-22: PlotGraph::new(plot) and graph.validate()?
NewAndValidate ==
    /\ pc = "start"
    /\ LET g == PlotGraphNew(plot) IN
       /\ graph' = g
       /\ IF g.status = "panic"
          THEN /\ validation' = validation
               /\ result' = ResPanic
               /\ pc' = "done"
          ELSE LET v == validate(g) IN
               /\ validation' = v
               /\ IF v.res.status = "ok"
                  THEN pc' = "tempdir" /\ result' = result
                  ELSE pc' = "done" /\ result' = v.res
    /\ UNCHANGED <<plot, parents, next_steps, completed_count, step_name, temp_dir, trace>>
    /\ UNCHANGED formulaVars
    /\ UNCHANGED jsonVars
    /\ UNCHANGED validateVars
    /\ UNCHANGED channelVars
    /\ UNCHANGED scriptVars

\* run_plot, lines 24-27 and PlotExecutor::run, lines 49-59
CreateTempDir ==
    /\ pc = "tempdir"
    /\ \E ok \in BOOLEAN :
         IF ok
         THEN /\ temp_dir' = "exists"
              /\ parents' = graph.parents
              /\ next_steps' = NoParentNodes(MapKeys(graph.nodes), graph.parents)
              /\ completed_count' = 0
              /\ pc' = "loop"
              /\ result' = result
         ELSE /\ result' = ResErr(Err("SystemSetupError", <<"failed to setup temporary dir">>,
                                      StrCause(<<"io">>)))
              /\ pc' = "done"
              /\ UNCHANGED <<temp_dir, parents, next_steps, completed_count>>
    /\ UNCHANGED <<plot, graph, validation, step_name, trace>>
    /\ UNCHANGED formulaVars
    /\ UNCHANGED jsonVars
    /\ UNCHANGED validateVars
    /\ UNCHANGED channelVars
    /\ UNCHANGED scriptVars

\* PlotExecutor::run, line 63 and the call of run_step on line 64
StartStep ==
    /\ pc = "loop"
    /\ next_steps # <<>>
    /\ step_name' = Last(next_steps)
    /\ next_steps' = Front(next_steps)
    /\ trace' = Append(trace, Event("run_step", Last(next_steps), None, <<>>, ResNone))
    /\ pc' = "step"
    /\ UNCHANGED <<plot, graph, validation, parents, completed_count, temp_dir, result>>
    /\ UNCHANGED formulaVars
    /\ UNCHANGED jsonVars
    /\ UNCHANGED validateVars
    /\ UNCHANGED channelVars
    /\ UNCHANGED scriptVars

\* run_step returns (lines 98-173); on Ok, lines 66-78 of PlotExecutor::run
FinishStep ==
    /\ pc = "step"
    /\ \E rf \in RunFormulaOutcomes :
         LET r == RunStep(plot, graph, step_name, rf)
             called == IF r.formula = None THEN <<>>
                       ELSE <<[Event("run_formula", step_name, r.formula, <<>>, rf)
                                  EXCEPT !.output_path = Some(r.output_path)]>>
             kids == IF MapHas(graph.children, step_name)
                     THEN MapGet(graph.children, step_name) ELSE <<>>
             st == RelaxRun(kids, 1, step_name,
                            [parents |-> parents, ready |-> next_steps, panic |-> FALSE])
         IN  /\ trace' = trace \o called \o <<Event(r.res.status, step_name, None, <<>>, r.res)>>
             /\ IF r.res.status = "ok" /\ ~st.panic
                THEN /\ completed_count' = completed_count + 1
                     /\ parents' = st.parents
                     /\ next_steps' = st.ready
                     /\ pc' = "loop"
                     /\ UNCHANGED <<result, temp_dir>>
                ELSE /\ result' = IF r.res.status = "ok" THEN ResPanic ELSE r.res
                     /\ pc' = "done"
                     /\ IF r.res.status = "err" THEN temp_dir' = DropTempDir
                        ELSE temp_dir' \in {"exists", DropTempDir}
                     /\ UNCHANGED <<completed_count, parents, next_steps>>
    /\ UNCHANGED <<plot, graph, validation, step_name>>
    /\ UNCHANGED formulaVars
    /\ UNCHANGED jsonVars
    /\ UNCHANGED validateVars
    /\ UNCHANGED channelVars
    /\ UNCHANGED scriptVars

\* PlotExecutor::run, lines 81-96, and the drop of the executor in run_plot
PackOutputs ==
    /\ pc = "loop"
    /\ next_steps = <<>>
    /\ \E res \in {ResOk, ResErr(Err("Catchall", <<"failed to pack outputs">>, NoCause))} :
         /\ result' = res
         /\ trace' = Append(trace, Event("pack_outputs", "", None, IntermediateOutputs(plot), res))
    /\ temp_dir' = DropTempDir
    /\ pc' = "done"
    /\ UNCHANGED <<plot, graph, validation, parents, next_steps, completed_count, step_name>>
    /\ UNCHANGED formulaVars
    /\ UNCHANGED jsonVars
    /\ UNCHANGED validateVars
    /\ UNCHANGED channelVars
    /\ UNCHANGED scriptVars

----------------------------------------------------------------------------
(* Formula::run: the input loop (formula.rs, lines 160-209) *)

\* bytes of a character in UTF-8
ByteLen(c) == IF c = "é" THEN 2 ELSE 1

\* port.get(..1): None when the port is empty or byte 1 is no char boundary
GetTo1(port) ==
    IF port # <<>> /\ ByteLen(port[1]) = 1 THEN Some(port[1]) ELSE None

\* port.get(1..)
GetFrom1(port) ==
    IF port # <<>> /\ ByteLen(port[1]) = 1 THEN Some(Tail(port)) ELSE None

\* IndexMap::insert: a present key keeps its place and gets the new value
MapInsert(m, k, v) ==
    IF MapHas(m, k) THEN MapSet(m, k, v) ELSE Append(m, [key |-> k, val |-> v])

\* MountSpec::new_bind(host, target, readonly)
NewBind(host, target, readonly) ==
    [kind |-> "bind", host_source |-> host, sandbox_target |-> target, readonly |-> readonly]

EmptyEnvNameMsg == <<"environment variable with empty name">>
NotLiteralMsg(name) == <<"value of environment variable '">> \o name \o <<"' has to be literal">>
LiteralMountMsg(port) ==
    <<"formula input '">> \o port \o <<"': 'literal' not supported, use 'ware' or 'mount'">>
InvalidInputMsg(port) == <<"invalid formula input '">> \o port \o <<"'">>

SetupErr(msg) == ResErr(Err("SystemSetupCauseless", msg, NoCause))

\* mutant: "$".get(1..) == Some("") is taken as a name
EnvNameMut(port) == GetFrom1(port)

\* lines 165-172: the variable's name, None when it is empty
EnvName(port) ==
    LET name == GetFrom1(port)
    IN  IF name # None /\ name[1] # <<>> THEN name ELSE None

\* one iteration of the loop: st = [res, mounts, environment]
LowerInput(port, input, st) ==
    CASE GetTo1(port) = Some("$") ->
            LET name == EnvName(port) IN
            IF name = None THEN [st EXCEPT !.res = SetupErr(EmptyEnvNameMsg)]
            ELSE IF input.kind # "Literal"
            THEN [st EXCEPT !.res = SetupErr(NotLiteralMsg(name[1]))]
            ELSE [st EXCEPT !.environment = MapInsert(st.environment, name[1], input.value)]
      [] GetTo1(port) = Some("/") ->
            CASE input.kind = "Ware" -> [st EXCEPT !.res = ResPanic]
              [] input.kind = "Mount" /\ input.mode = "ReadOnly" ->
                    [st EXCEPT !.mounts = MapInsert(st.mounts, port,
                                                    NewBind(input.value, port, TRUE))]
              [] input.kind = "Mount" /\ input.mode = "ReadWrite" ->
                    [st EXCEPT !.mounts = MapInsert(st.mounts, port,
                                                    NewBind(input.value, port, FALSE))]
              [] input.kind = "Mount" /\ input.mode = "Overlay" -> [st EXCEPT !.res = ResPanic]
              [] OTHER -> [st EXCEPT !.res = SetupErr(LiteralMountMsg(port))]
      [] OTHER -> [st EXCEPT !.res = SetupErr(InvalidInputMsg(port))]

\* for (port, input) in formula.inputs, from input j on; stops at the first failure;
\* upto counts the inputs the loop has taken
RECURSIVE LowerLoop(_, _, _)
LowerLoop(inputs, j, st) ==
    IF j > Len(inputs) \/ st.res.status # "ok" THEN st
    ELSE LowerLoop(inputs, j + 1,
                   [LowerInput(inputs[j].port, inputs[j].input, st) EXCEPT !.upto = j])

LowerInputs(inputs) ==
    LowerLoop(inputs, 1, [res |-> ResOk, mounts |-> <<>>, environment |-> <<>>, upto |-> 0])

NotLowered == [res |-> ResNone, mounts |-> <<>>, environment |-> <<>>, upto |-> 0]

----------------------------------------------------------------------------
(* Formula::setup_script and the action match of Formula::run *)

CONTAINER_BASE_PATH == <<"/", ".warpforge.container">>

\* PathBuf::join of a relative name, as the string to_str()/display() gives
PathJoin(base, name) == base \o <<"/">> \o name

\* Formula::container_script_path
container_script_path == PathJoin(CONTAINER_BASE_PATH, <<"script">>)

\* executor.ersatz_dir (temporary_dir.path().join("run")) and setup_script's script_dir
ErsatzDir == <<"<temporary_dir>", "/", "run">>
script_dir == PathJoin(ErsatzDir, <<"script">>)

\* entries of the file system: a file's content is its lines in order
Dir(path) == [path |-> path, kind |-> "dir", content |-> <<>>]
File(path, lines) == [path |-> path, kind |-> "file", content |-> lines]

\* mutant: the check for a pre-existing script directory is skipped
PathExistsMut(fs, path) == FALSE

\* Path::exists: follows symbolic links, so a dangling link does not exist
PathExists(fs, path) == \E e \in fs : e.path = path /\ e.kind \in {"dir", "file"}
IsDanglingLink(fs, path) == \E e \in fs : e.path = path /\ e.kind = "symlink"

\* fs::create_dir_all(script_dir): the directory and its missing ancestor
CreateDirAll(fs, path) == fs \cup {Dir(ErsatzDir), Dir(path)}

\* fs::File::create: a new empty file, an existing one is truncated
FileCreate(fs, path) == {e \in fs : e.path # path} \cup {File(path, <<>>)}

\* writeln!(file, ..) on the file created at path
WriteLn(fs, path, line) ==
    {IF e.path = path THEN [e EXCEPT !.content = Append(e.content, line \o <<"\n">>)] ELSE e
        : e \in fs}

FsOp(op, path) == [op |-> op, path |-> path]

\* the I/O call of setup_script that fails, if one does: [op, n, kind]
NoFail == [op |-> "none", n |-> 0, kind |-> ""]
IoFail(op, n, kind) == [op |-> op, n |-> n, kind |-> kind]

FailPoints(action) ==
    IF action.kind # "Script" THEN {NoFail}
    ELSE {NoFail, IoFail("create_dir_all", 0, "PermissionDenied"),
          IoFail("create_dir_all", 0, "Other"), IoFail("create_run", 0, "Other")}
         \cup {IoFail(op, n, "Other") :
                    op \in {"create_entry", "write_entry", "write_run"},
                    n \in 0..(Len(action.contents) - 1)}

IoCause == StrCause(<<"io">>)

ScriptDirExistedMsg == <<"script directory already existed when trying to setup script">>
CreateDirMsg == <<"failed during formula execution: couldn't create script dir">>
OpenScriptMsg == <<"failed during formula execution: couldn't open script file for writing">>
CreateEntryMsg(n) ==
    <<"failed during formula execution: couldn't cr", "eate script entry number ">> \o Decimal(n)
WriteEntryMsg(n) ==
    <<"failed during formula execution: io error writing script entry file ">> \o Decimal(n)
WriteScriptMsg(n) ==
    <<"failed during formula execution: io error writing script file entry ">> \o Decimal(n)

\* format!("entry-{}", n)
EntryFileName(n) == <<"entry-">> \o Decimal(n)

\* the map_err of create_dir_all, lines 81-93
CreateDirErr(kind) ==
    IF kind = "PermissionDenied" THEN ResErr(Err("SystemSetupError", CreateDirMsg, IoCause))
    ELSE ResErr(Err("SystemRuntimeError", CreateDirMsg, IoCause))

\* for (n, line) in script.contents.iter().enumerate(), from entry n on (lines 102-131);
\* st = [res, fs, ops]
RECURSIVE WriteEntries(_, _, _, _)
WriteEntries(contents, n, st, fail) ==
    IF n >= Len(contents) THEN st
    ELSE LET entry == PathJoin(script_dir, EntryFileName(n))
             run == PathJoin(script_dir, <<"run">>)
             failsHere(op) == fail.op = op /\ fail.n = n
             fs1 == FileCreate(st.fs, entry)
             ops1 == Append(st.ops, FsOp("create", entry))
             fs2 == WriteLn(fs1, entry, <<contents[n + 1]>>)
             ops2 == Append(ops1, FsOp("write", entry))
             fs3 == WriteLn(fs2, run, <<". ">> \o PathJoin(container_script_path, EntryFileName(n)))
             ops3 == Append(ops2, FsOp("write", run))
         IN  IF failsHere("create_entry")
             THEN [st EXCEPT !.res = ResErr(Err("Catchall", CreateEntryMsg(n), IoCause))]
             ELSE IF failsHere("write_entry")
             THEN [res |-> ResErr(Err("Catchall", WriteEntryMsg(n), IoCause)),
                   fs |-> fs1, ops |-> ops1]
             ELSE IF failsHere("write_run")
             THEN [res |-> ResErr(Err("Catchall", WriteScriptMsg(n), IoCause)),
                   fs |-> fs2, ops |-> ops2]
             ELSE WriteEntries(contents, n + 1, [res |-> ResOk, fs |-> fs3, ops |-> ops3], fail)

SetupResult(res, mounts, command, fs, ops) ==
    [res |-> res, mounts |-> mounts, command |-> command, fs |-> fs, ops |-> ops]

\* the arguments of MountSpec::new_bind on line 136
ScriptMount == NewBind(script_dir, container_script_path, FALSE)

\* setup_script(script, &mut mounts) on the file system fs: [res, mounts, command, fs, ops]
SetupScript(script, mounts, fs, fail) ==
    LET run == PathJoin(script_dir, <<"run">>)
        failed(res, fs1, ops) == SetupResult(res, mounts, <<>>, fs1, ops)
    IN  IF PathExists(fs, script_dir)
        THEN failed(SetupErr(ScriptDirExistedMsg), fs, <<>>)
        ELSE IF fail.op = "create_dir_all"
        THEN failed(CreateDirErr(fail.kind), fs, <<>>)
        ELSE IF IsDanglingLink(fs, script_dir)
        THEN failed(CreateDirErr("AlreadyExists"), fs, <<>>)
        ELSE LET fs1 == CreateDirAll(fs, script_dir)
                 ops1 == <<FsOp("create_dir_all", script_dir)>>
             IN  IF fail.op = "create_run"
                 THEN failed(ResErr(Err("Catchall", OpenScriptMsg, IoCause)), fs1, ops1)
                 ELSE LET st == WriteEntries(script.contents, 0,
                                    [res |-> ResOk, fs |-> FileCreate(fs1, run),
                                     ops |-> Append(ops1, FsOp("create", run))], fail)
                      IN  IF st.res.status # "ok" THEN failed(st.res, st.fs, st.ops)
                          ELSE SetupResult(ResOk,
                                   MapInsert(mounts, container_script_path, ScriptMount),
                                   <<<<script.interpreter>>,
                                     PathJoin(container_script_path, <<"run">>)>>,
                                   st.fs, st.ops)

EchoCommand == <<<<"echo">>, <<"what is the \"Echo\" Action for?">>>>

\* the match on formula.action, lines 213-221
ActionCommand(action, mounts, fs, fail) ==
    CASE action.kind = "Echo" -> SetupResult(ResOk, mounts, EchoCommand, fs, <<>>)
      [] action.kind = "Execute" ->
            SetupResult(ResOk, mounts, [i \in 1..Len(action.command) |-> <<action.command[i]>>],
                        fs, <<>>)
      [] OTHER -> SetupScript(action, mounts, fs, fail)

NotSetup == [res |-> ResNone, mounts |-> <<>>, command |-> <<>>]

----------------------------------------------------------------------------
(* The formulas run_formula is given *)

PortChoices == {<<>>, <<"$">>, <<"$", "A">>, <<"/">>, <<"/", "m">>, <<"x">>, <<"é">>, <<"A", "$">>}

FormulaInputChoices ==
    {Literal("v"), Input("Ware", "", <<"tar:4z9">>, "", ""),
     Mount("ReadOnly", <<"/host/ro">>), Mount("ReadWrite", <<"/host/rw">>),
     Mount("Overlay", <<"/host/overlay">>)}

\* ordered maps SandboxPort -> FormulaInput with at most MaxFormulaInputs entries
FormulaInputMaps ==
    UNION {
        {m \in [1..n -> [port : PortChoices, input : FormulaInputChoices]] :
            \A i, j \in 1..n : i # j => m[i].port # m[j].port}
        : n \in 0..MaxFormulaInputs}

ExecCommand == <<"/bin/sh", "-c", "echo hello from warpforge!">>

\* formulas with an Echo or an Execute action over all the input maps
Formulas ==
    {[image |-> PlotImage, inputs |-> m, action |-> a, outputs |-> <<>>] :
        m \in FormulaInputMaps, a \in {ActionEcho, ActionExecute(ExecCommand, None)}}

\* sequences over S of length at most n
SeqsUpTo(S, n) == UNION {[1..k -> S] : k \in 0..n}

ScriptContents == SeqsUpTo({"echo a", "echo b"}, MaxScriptLines)

\* input maps of the formulas with a Script action: none, a mount elsewhere and
\* a mount at the very port the script is mounted at
ScriptInputMaps ==
    {<<>>,
     <<[port |-> <<"/", "m">>, input |-> Mount("ReadOnly", <<"/host/ro">>)]>>,
     <<[port |-> container_script_path, input |-> Mount("ReadWrite", <<"/host/rw">>)]>>}

ScriptFormulas ==
    {[image |-> PlotImage, inputs |-> m,
      action |-> ActionScript("/bin/sh", c, None), outputs |-> <<>>] :
        m \in ScriptInputMaps, c \in ScriptContents}

\* what the host holds under ersatz_dir when setup_script is called: nothing,
\* the directory alone, a script directory with an older script, a regular
\* file named script, a dangling symbolic link named script
ErsatzChoices ==
    {{},
     {Dir(ErsatzDir)},
     {Dir(ErsatzDir), Dir(script_dir), File(PathJoin(script_dir, <<"run">>), <<<<"old", "\n">>>>)},
     {Dir(ErsatzDir), File(script_dir, <<>>)},
     {Dir(ErsatzDir), [path |-> script_dir, kind |-> "symlink", content |-> <<>>]}}

NoFormula == [image |-> PlotImage, inputs |-> <<>>, action |-> ActionEcho, outputs |-> <<>>]

----------------------------------------------------------------------------
(* run_formula as a state machine: the calling task, the executor it awaits *)
(* and the spawned event handler                                            *)

ChannelCapacity == 32

OutputEvent(v) == [kind |-> "Output", val |-> v, code |-> None]
ExitCodeEvent(c) == [kind |-> "ExitCode", val |-> 0, code |-> c]

\* exit codes a container reports; None when it was ended by a signal
EventCodes == {Some(0), Some(7), Some(137), Some(-1), None}

ExitEmitted == \E i \in 1..Len(emitted) : emitted[i].kind = "ExitCode"

FormulaIdle ==
    /\ formula = NoFormula
    /\ fpc = "idle"
    /\ lowered = NotLowered
    /\ emitted = <<>>
    /\ channel = <<>>
    /\ sender_open = FALSE
    /\ receiver_open = FALSE
    /\ consumer = "none"
    /\ handled = <<>>
    /\ terminal = <<>>
    /\ captured = None
    /\ exec_result = ResNone
    /\ fresult = ResNone

\* run_formula, lines 21-44: the temporary dir, the channel and tokio::spawn
Spawn ==
    /\ fpc = "start"
    /\ \E ok \in BOOLEAN :
         IF ok
         THEN /\ sender_open' = TRUE
              /\ receiver_open' = TRUE
              /\ consumer' = "running"
              /\ fpc' = "lower"
              /\ fresult' = fresult
         ELSE /\ fresult' = ResErr(Err("SystemSetupError", <<"failed to setup temporary dir">>,
                                       StrCause(<<"io">>)))
              /\ fpc' = "done"
              /\ UNCHANGED <<sender_open, receiver_open, consumer>>
    /\ UNCHANGED <<formula, lowered, emitted, channel, handled, terminal, captured, exec_result>>
    /\ UNCHANGED plotVars
    /\ UNCHANGED jsonVars
    /\ UNCHANGED validateVars
    /\ UNCHANGED channelVars
    /\ UNCHANGED scriptVars

\* mutant: a Sender stays alive in run_formula when the executor has returned
ExecReturnsKeepsSenderMut(r) ==
    /\ exec_result' = r
    /\ sender_open' = sender_open
    /\ IF r.status = "ok"
       THEN fpc' = "join" /\ fresult' = fresult
       ELSE fpc' = "done" /\ fresult' = RunFormulaReturn(r, None)

\* executor.run(..) returns r to run_formula, dropping the outbox: line 46 with its `?`
ExecReturns(r) ==
    /\ exec_result' = r
    /\ sender_open' = FALSE
    /\ IF r.status = "ok"
       THEN fpc' = "join" /\ fresult' = fresult
       ELSE fpc' = "done" /\ fresult' = RunFormulaReturn(r, None)

\* Formula::run, lines 155-209
Lower ==
    /\ fpc = "lower"
    /\ LET st == LowerInputs(formula.inputs) IN
       /\ lowered' = st
       /\ IF st.res.status = "ok"
          THEN /\ fpc' = "action"
               /\ UNCHANGED <<exec_result, sender_open, fresult>>
          ELSE ExecReturns(st.res)
    /\ UNCHANGED <<formula, emitted, channel, receiver_open, consumer, handled, terminal,
                   captured>>
    /\ UNCHANGED plotVars
    /\ UNCHANGED jsonVars
    /\ UNCHANGED validateVars
    /\ UNCHANGED channelVars
    /\ UNCHANGED scriptVars

\* Formula::run, lines 211-221: the command of the action; a Script action
\* calls setup_script, any of whose I/O calls may fail
HandleAction ==
    /\ fpc = "action"
    /\ \E fail \in FailPoints(formula.action) :
         LET r == ActionCommand(formula.action, lowered.mounts, ersatz, fail) IN
         /\ setup' = [res |-> r.res, mounts |-> r.mounts, command |-> r.command]
         /\ ersatz' = r.fs
         /\ fs_ops' = fs_ops \o r.ops
         /\ IF r.res.status = "ok"
            THEN /\ fpc' = "prepare"
                 /\ UNCHANGED <<exec_result, sender_open, fresult>>
            ELSE ExecReturns(r.res)
    /\ UNCHANGED <<formula, lowered, emitted, channel, receiver_open, consumer, handled,
                   terminal, captured>>
    /\ UNCHANGED plotVars
    /\ UNCHANGED jsonVars
    /\ UNCHANGED validateVars
    /\ UNCHANGED channelVars

\* Formula::run, lines 223-245: the bundle path, the image reference and unpack
Prepare ==
    /\ fpc = "prepare"
    /\ \E ok \in BOOLEAN :
         IF ok
         THEN /\ fpc' = "exec"
              /\ UNCHANGED <<exec_result, sender_open, fresult>>
         ELSE ExecReturns(ResErr(Err("SystemSetupError", <<"failed to obtain image">>,
                                     StrCause(<<"unpack">>))))
    /\ UNCHANGED <<formula, lowered, emitted, channel, receiver_open, consumer, handled,
                   terminal, captured>>
    /\ UNCHANGED plotVars
    /\ UNCHANGED jsonVars
    /\ UNCHANGED validateVars
    /\ UNCHANGED channelVars
    /\ UNCHANGED scriptVars

\* outbox.send(event).await: waits while the channel is full
Send(event) ==
    /\ receiver_open
    /\ Len(channel) < ChannelCapacity
    /\ channel' = Append(channel, event)
    /\ emitted' = Append(emitted, event)

\* the executor publishes one line of captured stdio
EmitOutput ==
    /\ fpc = "exec"
    /\ ~ExitEmitted
    /\ Len(emitted) < MaxEvents
    /\ Send(OutputEvent(Len(emitted) + 1))
    /\ UNCHANGED <<formula, fpc, lowered, sender_open, receiver_open, consumer, handled,
                   terminal, captured, exec_result, fresult>>
    /\ UNCHANGED plotVars
    /\ UNCHANGED jsonVars
    /\ UNCHANGED validateVars
    /\ UNCHANGED channelVars
    /\ UNCHANGED scriptVars

\* the executor publishes the exit code, which ends its stream, and returns Ok
EmitExitCode ==
    /\ fpc = "exec"
    /\ ~ExitEmitted
    /\ \E c \in EventCodes : Send(ExitCodeEvent(c))
    /\ ExecReturns(ResOk)
    /\ UNCHANGED <<formula, lowered, receiver_open, consumer, handled, terminal, captured>>
    /\ UNCHANGED plotVars
    /\ UNCHANGED jsonVars
    /\ UNCHANGED validateVars
    /\ UNCHANGED channelVars
    /\ UNCHANGED scriptVars

\* the executor returns without having published an exit code
ExecutorReturn ==
    /\ fpc = "exec"
    /\ ~ExitEmitted
    /\ \E r \in {ResOk, ResErr(Err("SystemRuntimeError", <<"failed to run container">>,
                                   StrCause(<<"io">>)))} : ExecReturns(r)
    /\ UNCHANGED <<formula, lowered, emitted, channel, receiver_open, consumer, handled,
                   terminal, captured>>
    /\ UNCHANGED plotVars
    /\ UNCHANGED jsonVars
    /\ UNCHANGED validateVars
    /\ UNCHANGED channelVars
    /\ UNCHANGED scriptVars

\* the body of the event handler's loop for one received event: [done, code, lines]
HandleEvent(event) ==
    IF event.kind = "Output"
    THEN [done |-> FALSE, code |-> None, lines |-> <<<<"[container] ", event.val, "\n">>>>]
    ELSE [done |-> TRUE, code |-> event.code, lines |-> <<>>]

\* event_receiver.recv().await yields the oldest buffered event (lines 36-41)
Recv ==
    /\ consumer = "running"
    /\ channel # <<>>
    /\ LET h == HandleEvent(Head(channel)) IN
       /\ handled' = Append(handled, Head(channel))
       /\ terminal' = terminal \o h.lines
       /\ IF h.done
          THEN /\ captured' = h.code
               /\ consumer' = "finished"
               /\ receiver_open' = FALSE
               /\ channel' = <<>>
          ELSE /\ channel' = Tail(channel)
               /\ UNCHANGED <<captured, consumer, receiver_open>>
    /\ UNCHANGED <<formula, fpc, lowered, emitted, sender_open, exec_result, fresult>>
    /\ UNCHANGED plotVars
    /\ UNCHANGED jsonVars
    /\ UNCHANGED validateVars
    /\ UNCHANGED channelVars
    /\ UNCHANGED scriptVars

\* recv() yields None: the channel is empty and the sender is gone (lines 36, 43)
RecvClosed ==
    /\ consumer = "running"
    /\ channel = <<>>
    /\ ~sender_open
    /\ fpc \notin {"start", "idle"}
    /\ captured' = None
    /\ consumer' = "finished"
    /\ receiver_open' = FALSE
    /\ UNCHANGED <<formula, fpc, lowered, emitted, channel, sender_open, handled, terminal,
                   exec_result, fresult>>
    /\ UNCHANGED plotVars
    /\ UNCHANGED jsonVars
    /\ UNCHANGED validateVars
    /\ UNCHANGED channelVars
    /\ UNCHANGED scriptVars

\* mutant: the event handler is not awaited
JoinReadyMut == TRUE

\* event_handler.await completes when the task has returned
JoinReady == consumer = "finished"

\* run_formula, lines 48-58
AwaitHandler ==
    /\ fpc = "join"
    /\ JoinReady
    /\ fresult' = RunFormulaReturn(exec_result, captured)
    /\ fpc' = "done"
    /\ UNCHANGED <<formula, lowered, emitted, channel, sender_open, receiver_open, consumer,
                   handled, terminal, captured, exec_result>>
    /\ UNCHANGED plotVars
    /\ UNCHANGED jsonVars
    /\ UNCHANGED validateVars
    /\ UNCHANGED channelVars
    /\ UNCHANGED scriptVars

----------------------------------------------------------------------------
(* An executor that passes any sequence of events to outbox.send: Output   *)
(* events, at some point possibly an ExitCode, and events after it.  A     *)
(* send is a step of its own, so that the executor can be seen waiting.    *)

ExitAttempted == \E i \in 1..Len(attempts) : attempts[i].kind = "ExitCode"

\* the events passed to send after the first ExitCode
AfterExit ==
    IF ~ExitAttempted THEN 0
    ELSE Len(attempts) - (CHOOSE i \in 1..Len(attempts) :
                            /\ attempts[i].kind = "ExitCode"
                            /\ \A j \in 1..(i - 1) : attempts[j].kind # "ExitCode")

\* the events the executor may pass to send next
NextEvents ==
    IF ExitAttempted /\ AfterExit >= MaxAfterExit THEN {}
    ELSE IF ~ExitAttempted /\ Len(attempts) >= MaxEvents THEN {}
    ELSE {OutputEvent(Len(attempts) + 1), ExitCodeEvent(Some(0))}

\* the executor calls outbox.send(event)
BeginSend ==
    /\ fpc = "exec"
    /\ ~sending
    /\ \E event \in NextEvents : attempts' = Append(attempts, event)
    /\ sending' = TRUE
    /\ UNCHANGED formulaVars
    /\ UNCHANGED plotVars
    /\ UNCHANGED jsonVars
    /\ UNCHANGED validateVars
    /\ UNCHANGED scriptVars

\* send(event).await returns Ok: the channel had room and took the event
CompleteSend ==
    /\ sending
    /\ Send(Last(attempts))
    /\ sending' = FALSE
    /\ UNCHANGED <<formula, fpc, lowered, sender_open, receiver_open, consumer, handled,
                   terminal, captured, exec_result, fresult, attempts>>
    /\ UNCHANGED plotVars
    /\ UNCHANGED jsonVars
    /\ UNCHANGED validateVars
    /\ UNCHANGED scriptVars

\* send(event).await returns Err: the receiver is gone
FailSend ==
    /\ sending
    /\ ~receiver_open
    /\ sending' = FALSE
    /\ UNCHANGED attempts
    /\ UNCHANGED formulaVars
    /\ UNCHANGED plotVars
    /\ UNCHANGED jsonVars
    /\ UNCHANGED validateVars
    /\ UNCHANGED scriptVars

\* the executor returns, with or without having sent an ExitCode
ExecutorDone ==
    /\ fpc = "exec"
    /\ ~sending
    /\ \E r \in {ResOk, ResErr(Err("SystemRuntimeError", <<"failed to run container">>,
                                   StrCause(<<"io">>)))} : ExecReturns(r)
    /\ UNCHANGED <<formula, lowered, emitted, channel, receiver_open, consumer, handled,
                   terminal, captured>>
    /\ UNCHANGED channelVars
    /\ UNCHANGED plotVars
    /\ UNCHANGED jsonVars
    /\ UNCHANGED validateVars
    /\ UNCHANGED scriptVars

\* formulas for the runs of the channel: one that is lowered and one that is not
ChannelFormulas ==
    {f \in Formulas :
        /\ f.action = ActionEcho
        /\ Len(f.inputs) <= 1
        /\ \A i \in 1..Len(f.inputs) :
              /\ f.inputs[i].port \in {<<"/", "m">>, <<"x">>}
              /\ f.inputs[i].input = Mount("ReadOnly", <<"/host/ro">>)}

----------------------------------------------------------------------------
(* The JSON form of FormulaAndContext (warpforge-api/src/formula.rs)        *)
(*                                                                          *)
(* A document is the tree of its values; an object keeps its members in the *)
(* order of the text, so two documents are equal exactly if their texts are *)
(* equal modulo whitespace.  A string that has a stringoid form is the      *)
(* sequence of its parts, every ":" being a part of its own.                *)

JObj(items) == [t |-> "object", items |-> items, str |-> <<>>, bool |-> FALSE]
JStr(str) == [t |-> "string", items |-> <<>>, str |-> str, bool |-> FALSE]
JBool(b) == [t |-> "bool", items |-> <<>>, str |-> <<>>, bool |-> b]
JNull == [t |-> "null", items |-> <<>>, str |-> <<>>, bool |-> FALSE]
Member(key, val) == [key |-> key, val |-> val]
JArr(vals) ==
    [t |-> "array", items |-> [i \in 1..Len(vals) |-> Member(<<>>, vals[i])],
     str |-> <<>>, bool |-> FALSE]

\* #[discriminant = ..] of Mount and its Display
MountDiscriminant(mode) ==
    CASE mode = "ReadOnly" -> "ro"
      [] mode = "ReadWrite" -> "rw"
      [] OTHER -> "overlay"

MountToString(input) == <<MountDiscriminant(input.mode), ":">> \o input.value

\* #[discriminant = ..] of FormulaInput and its Display
FormulaInputToString(input) ==
    CASE input.kind = "Ware" -> <<"ware", ":">> \o input.value
      [] input.kind = "Mount" -> <<"mount", ":">> \o MountToString(input)
      [] OTHER -> <<"literal", ":">> \o input.value

\* skip_serializing_if = "Option::is_none"
EmitNetwork(network) ==
    IF network = None THEN <<>> ELSE <<Member(<<"network">>, JBool(network[1]))>>

EmitStrings(strings) == JArr([i \in 1..Len(strings) |-> JStr(<<strings[i]>>)])

EmitAction(a) ==
    CASE a.kind = "Echo" -> JStr(<<"echo">>)
      [] a.kind = "Execute" ->
            JObj(<<Member(<<"exec">>,
                          JObj(<<Member(<<"command">>, EmitStrings(a.command))>>
                               \o EmitNetwork(a.network)))>>)
      [] OTHER ->
            JObj(<<Member(<<"script">>,
                          JObj(<<Member(<<"interpreter">>, JStr(<<a.interpreter>>)),
                                 Member(<<"contents">>, EmitStrings(a.contents))>>
                               \o EmitNetwork(a.network)))>>)

EmitImage(image) ==
    JObj(<<Member(<<"reference">>, JStr(<<image.reference>>)),
           Member(<<"readonly">>, JBool(image.readonly))>>)

EmitInputs(inputs) ==
    JObj([i \in 1..Len(inputs) |->
            Member(inputs[i].port, JStr(FormulaInputToString(inputs[i].input)))])

EmitGather(g) ==
    JObj(<<Member(<<"from">>, JStr(g.from)),
           Member(<<"packtype">>, IF g.packtype = None THEN JNull ELSE JStr(<<g.packtype[1]>>))>>)

EmitOutputs(outputs) ==
    JObj([i \in 1..Len(outputs) |-> Member(<<outputs[i].key>>, EmitGather(outputs[i].val))])

\* the fields of Formula in the order of the struct
EmitFormula(f) ==
    JObj(<<Member(<<"image">>, EmitImage(f.image)),
           Member(<<"inputs">>, EmitInputs(f.inputs)),
           Member(<<"action">>, EmitAction(f.action)),
           Member(<<"outputs">>, EmitOutputs(f.outputs))>>)

EmitWarehouses(w) == JObj([i \in 1..Len(w) |-> Member(w[i].key, JStr(<<w[i].val>>))])

\* serde_json::to_string of a FormulaAndContext
EmitJson(d) ==
    JObj(<<Member(<<"formula">>, JObj(<<Member(<<"formula.v1">>, EmitFormula(d.formula))>>)),
           Member(<<"context">>,
                  JObj(<<Member(<<"context.v1">>,
                                JObj(<<Member(<<"warehouses">>,
                                              EmitWarehouses(d.context.warehouses))>>))>>))>>)

\* results of the deserializers: [ok, v]
POk(v) == [ok |-> TRUE, v |-> v]
PFail(v) == [ok |-> FALSE, v |-> v]

\* the members of an object that carry the key `name`
Members(j, name) == SelectSeq(j.items, LAMBDA mem : mem.key = name)

\* a field of a derived struct: present once (a second one is "duplicate field")
HasField(j, name) == j.t = "object" /\ Len(Members(j, name)) = 1
Field(j, name) == Members(j, name)[1].val

\* mutant: the stringoid is split at its last ":"
ColonAtMut(s) ==
    IF \E i \in 1..Len(s) : s[i] = ":"
    THEN CHOOSE i \in 1..Len(s) : s[i] = ":" /\ \A k \in (i + 1)..Len(s) : s[k] # ":"
    ELSE 0

\* position of the first ":" of a stringoid, 0 if there is none
ColonAt(s) ==
    IF \E i \in 1..Len(s) : s[i] = ":"
    THEN CHOOSE i \in 1..Len(s) : s[i] = ":" /\ \A k \in 1..(i - 1) : s[k] # ":"
    ELSE 0

DiscriminantOf(s) == SubSeq(s, 1, ColonAt(s) - 1)
PayloadOf(s) == SubSeq(s, ColonAt(s) + 1, Len(s))

\* FromStr of Mount
MountFromString(s) ==
    IF ColonAt(s) = 0 THEN PFail(Mount("", <<>>))
    ELSE CASE DiscriminantOf(s) = <<"ro">> -> POk(Mount("ReadOnly", PayloadOf(s)))
           [] DiscriminantOf(s) = <<"rw">> -> POk(Mount("ReadWrite", PayloadOf(s)))
           [] DiscriminantOf(s) = <<"overlay">> -> POk(Mount("Overlay", PayloadOf(s)))
           [] OTHER -> PFail(Mount("", <<>>))

\* FromStr of FormulaInput
FormulaInputFromString(s) ==
    IF ColonAt(s) = 0 THEN PFail(Mount("", <<>>))
    ELSE CASE DiscriminantOf(s) = <<"ware">> -> POk(Input("Ware", "", PayloadOf(s), "", ""))
           [] DiscriminantOf(s) = <<"mount">> -> MountFromString(PayloadOf(s))
           [] DiscriminantOf(s) = <<"literal">> -> POk(Input("Literal", "", PayloadOf(s), "", ""))
           [] OTHER -> PFail(Mount("", <<>>))

\* IndexMap::insert on the entries of Formula::inputs
InsertInput(acc, port, input) ==
    IF \E k \in 1..Len(acc) : acc[k].port = port
    THEN [acc EXCEPT ![CHOOSE k \in 1..Len(acc) : acc[k].port = port].input = input]
    ELSE Append(acc, [port |-> port, input |-> input])

\* the members of "inputs", in the order of the text
RECURSIVE ParseInputMembers(_, _, _)
ParseInputMembers(items, i, acc) ==
    IF i > Len(items) THEN POk(acc)
    ELSE LET r == IF items[i].val.t = "string"
                  THEN FormulaInputFromString(items[i].val.str)
                  ELSE PFail(Mount("", <<>>))
         IN  IF ~r.ok THEN PFail(acc)
             ELSE ParseInputMembers(items, i + 1, InsertInput(acc, items[i].key, r.v))

ParseInputs(j) ==
    IF j.t = "object" THEN ParseInputMembers(j.items, 1, <<>>) ELSE PFail(<<>>)

\* Option<bool> with #[serde(default)]: absent and null are None
ParseNetwork(j) ==
    LET ms == Members(j, <<"network">>) IN
    IF ms = <<>> THEN POk(None)
    ELSE IF Len(ms) > 1 THEN PFail(None)
    ELSE IF ms[1].val.t = "null" THEN POk(None)
    ELSE IF ms[1].val.t = "bool" THEN POk(Some(ms[1].val.bool))
    ELSE PFail(None)

ParseStrings(j) ==
    IF j.t = "array" /\ \A i \in 1..Len(j.items) :
                            j.items[i].val.t = "string" /\ Len(j.items[i].val.str) = 1
    THEN POk([i \in 1..Len(j.items) |-> j.items[i].val.str[1]])
    ELSE PFail(<<>>)

ParseString(j) ==
    IF j.t = "string" /\ Len(j.str) = 1 THEN POk(j.str[1]) ELSE PFail("")

ParseExecute(j) ==
    IF ~HasField(j, <<"command">>) THEN PFail(ActionEcho)
    ELSE LET command == ParseStrings(Field(j, <<"command">>))
             network == ParseNetwork(j)
         IN  IF command.ok /\ network.ok THEN POk(ActionExecute(command.v, network.v))
             ELSE PFail(ActionEcho)

ParseScript(j) ==
    IF ~(HasField(j, <<"interpreter">>) /\ HasField(j, <<"contents">>)) THEN PFail(ActionEcho)
    ELSE LET interpreter == ParseString(Field(j, <<"interpreter">>))
             contents == ParseStrings(Field(j, <<"contents">>))
             network == ParseNetwork(j)
         IN  IF interpreter.ok /\ contents.ok /\ network.ok
             THEN POk(ActionScript(interpreter.v, contents.v, network.v))
             ELSE PFail(ActionEcho)

\* the externally tagged enum Action with its renamed variants
ParseAction(j) ==
    IF j.t = "string" THEN (IF j.str = <<"echo">> THEN POk(ActionEcho) ELSE PFail(ActionEcho))
    ELSE IF j.t = "object" /\ Len(j.items) = 1
    THEN CASE j.items[1].key = <<"exec">> -> ParseExecute(j.items[1].val)
           [] j.items[1].key = <<"script">> -> ParseScript(j.items[1].val)
           [] OTHER -> PFail(ActionEcho)
    ELSE PFail(ActionEcho)

ParseImage(j) ==
    IF ~(HasField(j, <<"reference">>) /\ HasField(j, <<"readonly">>)) THEN PFail(PlotImage)
    ELSE LET reference == ParseString(Field(j, <<"reference">>))
             readonly == Field(j, <<"readonly">>)
         IN  IF reference.ok /\ readonly.t = "bool"
             THEN POk([reference |-> reference.v, readonly |-> readonly.bool])
             ELSE PFail(PlotImage)

\* GatherDirective: packtype is an Option, absent and null are None
ParseGather(j) ==
    LET ms == IF j.t = "object" THEN Members(j, <<"packtype">>) ELSE <<>>
        bad == PFail([from |-> <<>>, packtype |-> None])
    IN  IF ~HasField(j, <<"from">>) \/ Field(j, <<"from">>).t # "string" \/ Len(ms) > 1 THEN bad
        ELSE IF ms = <<>> \/ ms[1].val.t = "null"
        THEN POk([from |-> Field(j, <<"from">>).str, packtype |-> None])
        ELSE IF ms[1].val.t = "string" /\ Len(ms[1].val.str) = 1
        THEN POk([from |-> Field(j, <<"from">>).str, packtype |-> Some(ms[1].val.str[1])])
        ELSE bad

RECURSIVE ParseOutputMembers(_, _, _)
ParseOutputMembers(items, i, acc) ==
    IF i > Len(items) THEN POk(acc)
    ELSE LET r == ParseGather(items[i].val) IN
         IF ~r.ok \/ Len(items[i].key) # 1 THEN PFail(acc)
         ELSE ParseOutputMembers(items, i + 1, MapInsert(acc, items[i].key[1], r.v))

ParseOutputs(j) ==
    IF j.t = "object" THEN ParseOutputMembers(j.items, 1, <<>>) ELSE PFail(<<>>)

ParseFormula(j) ==
    IF ~(/\ HasField(j, <<"image">>) /\ HasField(j, <<"inputs">>)
         /\ HasField(j, <<"action">>) /\ HasField(j, <<"outputs">>))
    THEN PFail(NoFormula)
    ELSE LET image == ParseImage(Field(j, <<"image">>))
             inputs == ParseInputs(Field(j, <<"inputs">>))
             action == ParseAction(Field(j, <<"action">>))
             outputs == ParseOutputs(Field(j, <<"outputs">>))
         IN  IF image.ok /\ inputs.ok /\ action.ok /\ outputs.ok
             THEN POk([image |-> image.v, inputs |-> inputs.v, action |-> action.v,
                       outputs |-> outputs.v])
             ELSE PFail(NoFormula)

RECURSIVE ParseWarehouseMembers(_, _, _)
ParseWarehouseMembers(items, i, acc) ==
    IF i > Len(items) THEN POk(acc)
    ELSE LET r == ParseString(items[i].val) IN
         IF ~r.ok THEN PFail(acc)
         ELSE ParseWarehouseMembers(items, i + 1, MapInsert(acc, items[i].key, r.v))

ParseWarehouses(j) ==
    IF j.t = "object" THEN ParseWarehouseMembers(j.items, 1, <<>>) ELSE PFail(<<>>)

FormulaAndContext(f, warehouses) == [formula |-> f, context |-> [warehouses |-> warehouses]]

NoJsonValue == FormulaAndContext(NoFormula, <<>>)

\* serde_json::from_str::<FormulaAndContext>
ParseJson(j) ==
    IF ~(HasField(j, <<"formula">>) /\ HasField(j, <<"context">>)) THEN PFail(NoJsonValue)
    ELSE LET fc == Field(j, <<"formula">>)
             cc == Field(j, <<"context">>)
         IN  IF ~(/\ fc.t = "object" /\ Len(fc.items) = 1 /\ fc.items[1].key = <<"formula.v1">>
                  /\ cc.t = "object" /\ Len(cc.items) = 1 /\ cc.items[1].key = <<"context.v1">>
                  /\ HasField(cc.items[1].val, <<"warehouses">>))
             THEN PFail(NoJsonValue)
             ELSE LET f == ParseFormula(fc.items[1].val)
                      w == ParseWarehouses(Field(cc.items[1].val, <<"warehouses">>))
                  IN  IF f.ok /\ w.ok THEN POk(FormulaAndContext(f.v, w.v))
                      ELSE PFail(NoJsonValue)

----------------------------------------------------------------------------
(* The values and the documents a round trip starts from *)

\* one entry for every variant of FormulaInput and of Mount, as in
\* test_formulat_roundtrip, and literals whose payload holds a ":" or nothing
JsonInputEntries ==
    {[port |-> <<"/">>, input |-> Input("Ware", "", <<"tar", ":", "4z9DCT">>, "", "")],
     [port |-> <<"/", "some/ro/path">>, input |-> Mount("ReadOnly", <<"/host/readonly/path">>)],
     [port |-> <<"/", "some/rw/path">>, input |-> Mount("ReadWrite", <<"/host/readwrite/path">>)],
     [port |-> <<"/", "some/overlay/path">>,
      input |-> Mount("Overlay", <<"/host/overlay/path">>)],
     [port |-> <<"$", "VAR">>, input |-> Input("Literal", "", <<"a", ":", "b">>, "", "")],
     [port |-> <<"$", "EMPTY">>, input |-> Input("Literal", "", <<>>, "", "")]}

\* ordered maps of at most MaxFormulaInputs of these entries
JsonInputMaps ==
    {m \in SeqsUpTo(JsonInputEntries, MaxFormulaInputs) :
        \A i, k \in 1..Len(m) : i # k => m[i] # m[k]}

JsonActions ==
    {ActionEcho, ActionExecute(ExecCommand, None), ActionExecute(ExecCommand, Some(TRUE)),
     ActionScript("/bin/sh", <<"echo a", "echo b">>, None)}

JsonOutputs == {<<>>, <<GatherOut>>, <<GatherWith("out", Some("none"))>>}

JsonWarehouses ==
    {<<>>, <<[key |-> <<"tar", ":", "4z9DCT">>, val |-> "https://warehouse/4z9/DCT"]>>}

JsonValues ==
    {FormulaAndContext([image |-> PlotImage, inputs |-> m, action |-> a, outputs |-> o], w) :
        m \in JsonInputMaps, a \in JsonActions, o \in JsonOutputs, w \in JsonWarehouses}

\* how a document is written: as the serializer writes it, with "context"
\* before "formula", with an explicit "network": null, without the "packtype"
\* member, or with a first input that has no discriminant
DocStyles == {"Canonical", "ContextFirst", "NullNetwork", "NoPacktype", "NoDiscriminant"}

StyleApplies(d, style) ==
    CASE style = "NullNetwork" ->
            d.formula.action.kind = "Execute" /\ d.formula.action.network = None
      [] style = "NoPacktype" -> d.formula.outputs # <<>>
      [] style = "NoDiscriminant" -> d.formula.inputs # <<>>
      [] OTHER -> TRUE

\* the document of d in the given style
WriteDoc(d, style) ==
    LET j == EmitJson(d) IN
    CASE style = "ContextFirst" -> [j EXCEPT !.items = <<j.items[2], j.items[1]>>]
      [] style = "NullNetwork" ->
            [j EXCEPT !.items[1].val.items[1].val.items[3].val.items[1].val.items =
                          Append(@, Member(<<"network">>, JNull))]
      [] style = "NoPacktype" ->
            [j EXCEPT !.items[1].val.items[1].val.items[4].val.items[1].val.items = <<@[1]>>]
      [] style = "NoDiscriminant" ->
            [j EXCEPT !.items[1].val.items[1].val.items[2].val.items[1].val.str = <<"mount">>]
      [] OTHER -> j

JsonStart(kind, style, value, text) ==
    [kind |-> kind, style |-> style, value |-> value, text |-> text]
NoJsonStart == JsonStart("none", "", None, None)

JsonIdle ==
    /\ json_start = NoJsonStart
    /\ json_value = None
    /\ json_text = None
    /\ jpc = "idle"

\* serde_json::to_string(&value)
EmitValue ==
    /\ jpc = "emit"
    /\ json_text' = Some(EmitJson(json_value[1]))
    /\ jpc' = IF json_start.kind = "value" THEN "parse" ELSE "done"
    /\ UNCHANGED <<json_start, json_value>>
    /\ UNCHANGED <<plotVars, formulaVars, scriptVars, channelVars, validateVars>>

\* serde_json::from_str(&text)
ParseText ==
    /\ jpc = "parse"
    /\ LET r == ParseJson(json_text[1]) IN
       IF r.ok
       THEN /\ json_value' = Some(r.v)
            /\ jpc' = IF json_start.kind = "text" THEN "emit" ELSE "done"
       ELSE /\ json_value' = None
            /\ jpc' = "rejected"
    /\ UNCHANGED <<json_start, json_text>>
    /\ UNCHANGED <<plotVars, formulaVars, scriptVars, channelVars, validateVars>>

----------------------------------------------------------------------------
(* validate_formula (warpforge-validate/src/lib.rs)                         *)
(*                                                                          *)
(* A text is a sequence of bytes, counted from 0 as in the code.  A byte is *)
(* a structural character, a white-space character, one unit of the content *)
(* of a string literal, or one of the literals true, false and null taken   *)
(* as a single unit.  serde_json's parser is modelled by what it does on    *)
(* such texts: the value it builds, or its first syntax error with the line *)
(* and column it reports.                                                   *)

MAX_TRAILING_COMMA == 20

ByteAt(b, i) == IF i < Len(b) THEN b[i + 1] ELSE "EOF"

\* the white space of JSON, and u8::is_ascii_whitespace
JsonWhitespace == {" ", "\n", "\t", "\r"}
AsciiWhitespace == {" ", "\n", "\t", "\r", "\f"}

\* the line (from 1) and the column of the first i bytes: the column is the
\* number of bytes since the last line feed
position_of_index(b, i) ==
    LET newlines == {k \in 1..i : b[k] = "\n"}
        last == IF newlines = {} THEN 0 ELSE CHOOSE k \in newlines : \A m \in newlines : m <= k
    IN  [line |-> 1 + Cardinality(newlines), column |-> i - last]

SyntaxOk(pos, val) ==
    [ok |-> TRUE, pos |-> pos, val |-> val, code |-> "", line |-> 0, column |-> 0]

\* an error at the byte peeked at: its position counts that byte in
peek_error(b, i, code) ==
    LET at == position_of_index(b, IF i + 1 < Len(b) THEN i + 1 ELSE Len(b))
    IN  [ok |-> FALSE, pos |-> i, val |-> JNull, code |-> code,
         line |-> at.line, column |-> at.column]

\* The parser reads the bytes in order.  Its state: what it expects next
\* (mode), the arrays and objects that are open (stack, the innermost last),
\* the content of the string being read, the value once it is complete, and
\* the first error with the index of the byte it was found at.
StartState ==
    [mode |-> "top", stack |-> <<>>, str |-> <<>>, is_key |-> FALSE,
     val |-> JNull, code |-> "", at |-> 0]

OpenFrame(t) == [t |-> t, items |-> <<>>, key |-> <<>>]

SyntaxFail(st, code, i) == [st EXCEPT !.mode = "error", !.code = code, !.at = i]

\* a value is complete: it is the document, or goes into the innermost
\* open array or object
CompleteValue(st, v) ==
    IF st.stack = <<>> THEN [st EXCEPT !.mode = "end", !.val = v]
    ELSE IF Last(st.stack).t = "array"
    THEN [st EXCEPT !.mode = "after_elem",
                    !.stack[Len(st.stack)].items = Append(@, v)]
    ELSE [st EXCEPT !.mode = "after_member",
                    !.stack[Len(st.stack)].items = Append(@, Member(Last(st.stack).key, v))]

\* "]" or "}" closes the innermost array or object
CloseFrame(st) ==
    CompleteValue([st EXCEPT !.stack = Front(st.stack)],
                  IF Last(st.stack).t = "array" THEN JArr(Last(st.stack).items)
                  ELSE JObj(Last(st.stack).items))

\* the first byte of a value
StartValue(st, c, i) ==
    CASE c = "[" -> [st EXCEPT !.mode = "first_elem", !.stack = Append(@, OpenFrame("array"))]
      [] c = "{" -> [st EXCEPT !.mode = "first_key", !.stack = Append(@, OpenFrame("object"))]
      [] c = "\"" -> [st EXCEPT !.mode = "in_string", !.str = <<>>, !.is_key = FALSE]
      [] c = "true" -> CompleteValue(st, JBool(TRUE))
      [] c = "false" -> CompleteValue(st, JBool(FALSE))
      [] c = "null" -> CompleteValue(st, JNull)
      [] OTHER -> SyntaxFail(st, "ExpectedSomeValue", i)

StartKey(st) == [st EXCEPT !.mode = "in_string", !.str = <<>>, !.is_key = TRUE]

\* one byte c, at index i.  After a comma, "]" and "}" are the trailing comma
\* error, found at the bracket.
ParseStep(st, c, i) ==
    IF st.mode = "error" THEN st
    ELSE IF st.mode = "in_string"
    THEN IF c # "\"" THEN [st EXCEPT !.str = Append(@, c)]
         ELSE IF st.is_key
         THEN [st EXCEPT !.mode = "colon", !.stack[Len(st.stack)].key = st.str]
         ELSE CompleteValue(st, JStr(st.str))
    ELSE IF c \in JsonWhitespace THEN st
    ELSE CASE st.mode \in {"top", "member_value"} -> StartValue(st, c, i)
           [] st.mode = "first_elem" ->
                IF c = "]" THEN CloseFrame(st) ELSE StartValue(st, c, i)
           [] st.mode = "elem" ->
                IF c = "]" THEN SyntaxFail(st, "TrailingComma", i) ELSE StartValue(st, c, i)
           [] st.mode = "after_elem" ->
                IF c = "," THEN [st EXCEPT !.mode = "elem"]
                ELSE IF c = "]" THEN CloseFrame(st)
                ELSE SyntaxFail(st, "ExpectedListCommaOrEnd", i)
           [] st.mode = "first_key" ->
                IF c = "}" THEN CloseFrame(st)
                ELSE IF c = "\"" THEN StartKey(st)
                ELSE SyntaxFail(st, "KeyMustBeAString", i)
           [] st.mode = "key" ->
                IF c = "}" THEN SyntaxFail(st, "TrailingComma", i)
                ELSE IF c = "\"" THEN StartKey(st)
                ELSE SyntaxFail(st, "KeyMustBeAString", i)
           [] st.mode = "colon" ->
                IF c = ":" THEN [st EXCEPT !.mode = "member_value"]
                ELSE SyntaxFail(st, "ExpectedColon", i)
           [] st.mode = "after_member" ->
                IF c = "," THEN [st EXCEPT !.mode = "key"]
                ELSE IF c = "}" THEN CloseFrame(st)
                ELSE SyntaxFail(st, "ExpectedObjectCommaOrEnd", i)
           [] OTHER -> SyntaxFail(st, "TrailingCharacters", i)

\* the error when the text ends too early
EofCode(mode) ==
    CASE mode \in {"first_elem", "after_elem"} -> "EofWhileParsingList"
      [] mode \in {"first_key", "after_member", "colon"} -> "EofWhileParsingObject"
      [] mode = "in_string" -> "EofWhileParsingString"
      [] OTHER -> "EofWhileParsingValue"

\* the state after the bytes lo..hi (counted from 1), read in order: the
\* first half, then the second half from the state the first half left.
\* The state after the first half is bound by a set constructor over the
\* one value, so that it is computed once.
RECURSIVE ParseRange(_, _, _, _)
ParseRange(b, st, lo, hi) ==
    IF lo > hi \/ st.mode = "error" THEN st
    ELSE IF lo = hi THEN ParseStep(st, b[lo], lo - 1)
    ELSE CHOOSE out \in
            {ParseRange(b, half.st, half.mid + 1, hi) :
                half \in {[mid |-> (lo + hi) \div 2,
                           st |-> ParseRange(b, st, lo, (lo + hi) \div 2)]}} : TRUE

ParseOutcome(b, st) ==
    IF st.mode = "error" THEN peek_error(b, st.at, st.code)
    ELSE IF st.mode = "end" THEN SyntaxOk(Len(b), st.val)
    ELSE peek_error(b, Len(b), EofCode(st.mode))

\* serde_json::from_str::<Value> and from_slice::<Value>: one value, then
\* nothing but white space
from_str_value(b) ==
    CHOOSE out \in {ParseOutcome(b, st) : st \in {ParseRange(b, StartState, 1, Len(b))}} : TRUE

\* a serde_json::Error
SerdeError(code, line, column) == [code |-> code, line |-> line, column |-> column]

\* serde_json::from_value::<FormulaAndContext>: its errors carry line 0, column 0
from_value(v) ==
    IF ParseJson(v).ok THEN [ok |-> TRUE, err |-> None]
    ELSE [ok |-> FALSE, err |-> Some(SerdeError("Data", 0, 0))]

\* serde_json::from_slice::<FormulaAndContext>
TypedResult(r) ==
    IF ~r.ok THEN [ok |-> FALSE, err |-> Some(SerdeError(r.code, r.line, r.column))]
    ELSE IF ParseJson(r.val).ok THEN [ok |-> TRUE, err |-> None]
    ELSE [ok |-> FALSE, err |-> Some(SerdeError("Data", 1, 1))]

from_slice(b) ==
    CHOOSE out \in {TypedResult(r) : r \in {from_str_value(b)}} : TRUE

\* err.is_syntax() && format!("{err}").starts_with("trailing comma")
err_is_trailing_comma(e) == e.code = "TrailingComma"

\* the while loop of find_byte_offset: [line, column, offset]
\* the condition of the while loop, line 128
WalkGoesOn(src, line, column, w) ==
    /\ w.offset < Len(src)
    /\ (w.line < line \/ (w.line = line /\ w.column < column))

\* the body of the while loop, lines 129-135
WalkStep(src, w) ==
    IF src[w.offset + 1] = "\n"
    THEN [line |-> w.line + 1, column |-> 1, offset |-> w.offset + 1]
    ELSE [line |-> w.line, column |-> w.column + 1, offset |-> w.offset + 1]

\* the while loop of find_byte_offset run for at most n turns from w: half of
\* the turns, then the rest from where the first half stopped.  Once the
\* condition is false it stays false, and Len(src) turns always reach that.
RECURSIVE FindWalk(_, _, _, _, _)
FindWalk(src, line, column, w, n) ==
    IF n = 0 \/ ~WalkGoesOn(src, line, column, w) THEN w
    ELSE IF n = 1 THEN WalkStep(src, w)
    ELSE CHOOSE out \in
            {FindWalk(src, line, column, half.w, n - half.n) :
                half \in {[n |-> n \div 2,
                           w |-> FindWalk(src, line, column, w, n \div 2)]}} : TRUE

\* the test after the loop, lines 138-142
FoundAt(src, line, column, w) ==
    IF w.offset >= Len(src) \/ w.line # line \/ w.column # column THEN None
    ELSE Some(w.offset)

find_byte_offset(src, line, column) ==
    CHOOSE out \in
        {FoundAt(src, line, column, w) :
            w \in {FindWalk(src, line, column, [line |-> 1, column |-> 1, offset |-> 0],
                            Len(src))}} : TRUE

\* lines 57-65: walks back from offset to the comma; ok is FALSE when a byte
\* that is no white space comes first
RECURSIVE ScanBack(_, _)
ScanBack(buf, offset) ==
    IF offset > 0
    THEN IF buf[offset] = "," THEN [ok |-> TRUE, offset |-> offset - 1]
         ELSE IF buf[offset] \notin AsciiWhitespace THEN [ok |-> FALSE, offset |-> offset - 1]
         ELSE ScanBack(buf, offset - 1)
    ELSE [ok |-> TRUE, offset |-> offset]

\* ValidationError::Serde and ValidationError::TrailingComma
Serde(e) == [variant |-> "Serde", span |-> None, serde_error |-> e]
TrailingComma(offset, e) ==
    [variant |-> "TrailingComma", span |-> Some(<<offset, offset + 1>>), serde_error |-> e]

\* mutant: one more entry is let in before the loop gives up
LimitReachedMut(errs) == Len(errs) > MAX_TRAILING_COMMA

\* errors.len() >= MAX_TRAILING_COMMA on line 77
LimitReached(errs) == Len(errs) >= MAX_TRAILING_COMMA

NotValidated == [status |-> "none", errors |-> <<>>]
ValidatedFormula == [status |-> "ok", errors |-> <<>>]
Invalid(errs) == [status |-> "invalid", errors |-> errs]

\* what the loop works on: the copy if there is one, else the text
WorkingBuffer == IF modified_formula = None THEN source ELSE modified_formula[1]

\* validate_formula, lines 18-34: the first parse of the text
ParseSource ==
    /\ vpc = "start"
    /\ \E r \in {from_str_value(source)} :
          IF r.ok
          THEN /\ vpc' = "deserialize"
               /\ serde_err' = None
          ELSE /\ vpc' = "loop"
               /\ serde_err' = Some(SerdeError(r.code, r.line, r.column))
    /\ errors' = <<>>
    /\ UNCHANGED <<source, modified_formula, repairs, vresult>>
    /\ UNCHANGED <<plotVars, formulaVars, scriptVars, jsonVars, channelVars>>

\* the return of Err(Error::Invalid { errors })
ReturnInvalid(errs) ==
    /\ vresult' = Invalid(errs)
    /\ errors' = errs
    /\ vpc' = "done"
    /\ serde_err' = None

\* lines 66-88: the comma at offset is written over, the entry is replaced,
\* and the buffer is parsed again unless the list is full
Overwrite(e, buf, offset) ==
    \E written \in {[buf EXCEPT ![offset + 1] = " "]},
       replaced \in {Append(errors, TrailingComma(offset, e))} :
        /\ modified_formula' = Some(written)
        /\ repairs' = Append(repairs, [offset |-> offset, before |-> buf[offset + 1]])
        /\ IF LimitReached(replaced) THEN ReturnInvalid(replaced)
           ELSE \E again \in {from_str_value(written)} :
                  /\ errors' = replaced
                  /\ vresult' = vresult
                  /\ IF again.ok
                     THEN vpc' = "deserialize" /\ serde_err' = None
                     ELSE /\ vpc' = "loop"
                          /\ serde_err' = Some(SerdeError(again.code, again.line,
                                                          again.column))

\* validate_formula, lines 35-89: one turn of the recovery loop
Repair ==
    /\ vpc = "loop"
    /\ \E e \in {serde_err[1]}, buf \in {WorkingBuffer} :
         \E found \in {find_byte_offset(source, e.line, e.column)} :
            IF ~err_is_trailing_comma(e) \/ found = None
            THEN /\ ReturnInvalid(Append(errors, Serde(e)))
                 /\ UNCHANGED <<modified_formula, repairs>>
            ELSE \E scan \in {ScanBack(buf, found[1])} :
                    IF ~scan.ok
                    THEN /\ ReturnInvalid(Append(errors, Serde(e)))
                         /\ modified_formula' = Some(buf)
                         /\ UNCHANGED repairs
                    ELSE Overwrite(e, buf, scan.offset)
    /\ UNCHANGED source
    /\ UNCHANGED <<plotVars, formulaVars, scriptVars, jsonVars, channelVars>>

\* lines 104-117: the error list that is returned
Reported(deserialize_err, parse_result) ==
    IF ~parse_result.ok THEN Append(errors, Serde(parse_result.err[1]))
    ELSE IF deserialize_err = None THEN errors
    ELSE Append(errors, Serde(deserialize_err[1]))

\* validate_formula, lines 93-117: the typed parse
Deserialize ==
    /\ vpc = "deserialize"
    /\ \E parsed \in {from_str_value(WorkingBuffer)} :
         \E typed \in {from_value(parsed.val)} :
            IF errors = <<>> /\ typed.ok
            THEN vresult' = ValidatedFormula /\ errors' = errors
            ELSE \E reported \in {Reported(IF errors = <<>> THEN typed.err ELSE None,
                                           from_slice(WorkingBuffer))} :
                    vresult' = Invalid(reported) /\ errors' = reported
    /\ vpc' = "done"
    /\ UNCHANGED <<source, modified_formula, serde_err, repairs>>
    /\ UNCHANGED <<plotVars, formulaVars, scriptVars, jsonVars, channelVars>>

----------------------------------------------------------------------------
(* The texts validate_formula is given *)

\* the text of a document: tc is written before the closing bracket of every
\* array and object that is not empty
RECURSIVE Render(_, _)
RECURSIVE RenderItems(_, _, _, _)

RenderItems(items, i, keyed, tc) ==
    IF i > Len(items) THEN <<>>
    ELSE (IF i > 1 THEN <<",">> ELSE <<>>)
         \o (IF keyed THEN <<"\"">> \o items[i].key \o <<"\"", ":">> ELSE <<>>)
         \o Render(items[i].val, tc)
         \o RenderItems(items, i + 1, keyed, tc)

Render(j, tc) ==
    CASE j.t = "string" -> <<"\"">> \o j.str \o <<"\"">>
      [] j.t = "bool" -> IF j.bool THEN <<"true">> ELSE <<"false">>
      [] j.t = "null" -> <<"null">>
      [] j.t = "array" -> <<"[">> \o RenderItems(j.items, 1, FALSE, tc)
                               \o (IF j.items = <<>> THEN <<>> ELSE tc) \o <<"]">>
      [] OTHER -> <<"{">> \o RenderItems(j.items, 1, TRUE, tc)
                        \o (IF j.items = <<>> THEN <<>> ELSE tc) \o <<"}">>

\* n arrays inside each other around one string
RECURSIVE Nested(_)
Nested(n) == IF n <= 1 THEN JArr(<<JStr(<<"a">>)>>) ELSE JArr(<<Nested(n - 1)>>)

\* nothing, a trailing comma, and trailing commas followed by white space
TrailingChoices == {<<>>, <<",">>, <<",", " ">>, <<",", "\n", " ">>}

\* what follows the document: nothing, a line feed, a stray byte
TailChoices == {<<>>, <<"\n">>, <<"x">>}

ValidateValues ==
    {d \in JsonValues :
        /\ Len(d.formula.inputs) <= 1
        /\ \A i \in 1..Len(d.formula.inputs) : d.formula.inputs[i].input.mode = "ReadOnly"
        /\ d.formula.action \in {ActionEcho, ActionExecute(ExecCommand, None)}
        /\ d.formula.outputs \in {<<>>, <<GatherOut>>}}

\* documents of a FormulaAndContext (with and without an input that the typed
\* parse rejects) and arrays nested up to MaxNesting deep
ValidateDocs ==
    {WriteDoc(d, "Canonical") : d \in ValidateValues}
        \cup {WriteDoc(d, "NoDiscriminant") : d \in {x \in ValidateValues : x.formula.inputs # <<>>}}
        \cup {Nested(n) : n \in 1..MaxNesting}

ValidateSources ==
    {<<>>} \cup {Render(j, tc) \o tail : j \in ValidateDocs, tc \in TrailingChoices,
                                         tail \in TailChoices}

----------------------------------------------------------------------------
(* Specifications *)

ScriptIdle ==
    /\ ersatz = {}
    /\ fs_ops = <<>>
    /\ setup = NotSetup

SendIdle ==
    /\ sending = FALSE
    /\ attempts = <<>>

ValidateIdle ==
    /\ source = <<>>
    /\ vpc = "idle"
    /\ modified_formula = None
    /\ errors = <<>>
    /\ serde_err = None
    /\ repairs = <<>>
    /\ vresult = NotValidated

Init ==
    /\ PlotInit
    /\ PlotIdle
    /\ FormulaIdle
    /\ ScriptIdle
    /\ JsonIdle
    /\ SendIdle
    /\ ValidateIdle

Next ==
    \/ NewAndValidate
    \/ CreateTempDir
    \/ StartStep
    \/ FinishStep
    \/ PackOutputs

Spec == Init /\ [][Next]_vars

InitFormula ==
    /\ plot = [image |-> None, steps |-> <<>>, outputs |-> <<>>]
    /\ PlotIdle
    /\ \/ formula \in Formulas /\ ersatz = {}
       \/ formula \in ScriptFormulas /\ ersatz \in ErsatzChoices
    /\ fs_ops = <<>>
    /\ setup = NotSetup
    /\ JsonIdle
    /\ SendIdle
    /\ ValidateIdle
    /\ fpc = "start"
    /\ lowered = NotLowered
    /\ emitted = <<>>
    /\ channel = <<>>
    /\ sender_open = FALSE
    /\ receiver_open = FALSE
    /\ consumer = "none"
    /\ handled = <<>>
    /\ terminal = <<>>
    /\ captured = None
    /\ exec_result = ResNone
    /\ fresult = ResNone

NextFormula ==
    \/ Spawn
    \/ Lower
    \/ HandleAction
    \/ Prepare
    \/ EmitOutput
    \/ EmitExitCode
    \/ ExecutorReturn
    \/ Recv
    \/ RecvClosed
    \/ AwaitHandler

SpecFormula == InitFormula /\ [][NextFormula]_vars

\* a round trip starts from a value (emit, then parse) or from a document
\* (parse, then emit)
InitJson ==
    /\ plot = [image |-> None, steps |-> <<>>, outputs |-> <<>>]
    /\ PlotIdle
    /\ FormulaIdle
    /\ ScriptIdle
    /\ SendIdle
    /\ ValidateIdle
    /\ \E d \in JsonValues :
          \/ /\ json_start = JsonStart("value", "", Some(d), None)
             /\ json_value = Some(d)
             /\ json_text = None
             /\ jpc = "emit"
          \/ \E style \in {st \in DocStyles : StyleApplies(d, st)} :
                /\ json_start = JsonStart("text", style, None, Some(WriteDoc(d, style)))
                /\ json_value = None
                /\ json_text = Some(WriteDoc(d, style))
                /\ jpc = "parse"

NextJson ==
    \/ EmitValue
    \/ ParseText

SpecJson == InitJson /\ [][NextJson]_vars

\* run_formula with the executor that sends any sequence of events
InitChannel ==
    /\ plot = [image |-> None, steps |-> <<>>, outputs |-> <<>>]
    /\ PlotIdle
    /\ ScriptIdle
    /\ JsonIdle
    /\ SendIdle
    /\ ValidateIdle
    /\ formula \in ChannelFormulas
    /\ fpc = "start"
    /\ lowered = NotLowered
    /\ emitted = <<>>
    /\ channel = <<>>
    /\ sender_open = FALSE
    /\ receiver_open = FALSE
    /\ consumer = "none"
    /\ handled = <<>>
    /\ terminal = <<>>
    /\ captured = None
    /\ exec_result = ResNone
    /\ fresult = ResNone

NextChannel ==
    \/ Spawn
    \/ Lower
    \/ HandleAction
    \/ Prepare
    \/ BeginSend
    \/ CompleteSend
    \/ FailSend
    \/ ExecutorDone
    \/ Recv
    \/ RecvClosed
    \/ AwaitHandler

\* both tasks are scheduled whenever they can take a step (the tokio runtime
\* polls a task that was woken), and the executor does not stand still: it
\* goes on to its next send or returns
ChannelFairness ==
    /\ WF_vars(Spawn) /\ WF_vars(Lower) /\ WF_vars(HandleAction) /\ WF_vars(Prepare)
    /\ WF_vars(BeginSend \/ ExecutorDone)
    /\ WF_vars(CompleteSend) /\ WF_vars(FailSend)
    /\ WF_vars(Recv) /\ WF_vars(RecvClosed)
    /\ WF_vars(AwaitHandler)

SpecChannel == InitChannel /\ [][NextChannel]_vars /\ ChannelFairness

\* validate_formula on each of the texts
InitValidate ==
    /\ plot = [image |-> None, steps |-> <<>>, outputs |-> <<>>]
    /\ PlotIdle
    /\ FormulaIdle
    /\ ScriptIdle
    /\ JsonIdle
    /\ SendIdle
    /\ source \in ValidateSources
    /\ vpc = "start"
    /\ modified_formula = None
    /\ errors = <<>>
    /\ serde_err = None
    /\ repairs = <<>>
    /\ vresult = NotValidated

NextValidate ==
    \/ ParseSource
    \/ Repair
    \/ Deserialize

SpecValidate == InitValidate /\ [][NextValidate]_vars

----------------------------------------------------------------------------
(* The step graph of a plot, read off the plot itself *)

\* <<p, s>>: step s has an input Pipe whose non-empty step_name is p
PipeEdges(p) ==
    {<<p.steps[i].inputs[j].input.step_name, p.steps[i].name>> :
        <<i, j>> \in {x \in (1..Len(p.steps)) \X (1..MaxPipes) :
                        /\ x[2] <= Len(p.steps[x[1]].inputs)
                        /\ p.steps[x[1]].inputs[x[2]].input.kind = "Pipe"
                        /\ p.steps[x[1]].inputs[x[2]].input.step_name # ""}}

\* an input Pipe with an empty step_name exists
HasEmptyPipe(p) ==
    \E i \in 1..Len(p.steps) : \E j \in 1..Len(p.steps[i].inputs) :
        p.steps[i].inputs[j].input.kind = "Pipe" /\ p.steps[i].inputs[j].input.step_name = ""

RECURSIVE Closure(_)
Closure(R) ==
    LET R2 == R \cup {<<x[1], y[2]>> : <<x, y>> \in {z \in R \X R : z[1][2] = z[2][1]}}
    IN  IF R2 = R THEN R ELSE Closure(R2)

\* v lies in a non-trivial strongly connected component: it reaches itself
OnCycle(p, v) == <<v, v>> \in Closure(PipeEdges(p))
CycleSteps(p) == {v \in StepNames(p) : OnCycle(p, v)}
Acyclic(p) == CycleSteps(p) = {}

\* steps on a cycle or downstream of one
BlockedSteps(p) ==
    {v \in StepNames(p) : \E u \in CycleSteps(p) : u = v \/ <<u, v>> \in Closure(PipeEdges(p))}

ParentsOf(p, v) == {e[1] : e \in {x \in PipeEdges(p) : x[2] = v}}

StepByName(p, v) == p.steps[CHOOSE i \in 1..Len(p.steps) : p.steps[i].name = v]

\* the names between the quotes of a message built with join("', '")
ListedNames(msg) == {msg[i] : i \in {k \in 2..(Len(msg) - 1) : k % 2 = 0}}

NoCyclesRan == validation.cycles.res.status # "none"

----------------------------------------------------------------------------
(* Claims about PlotGraph::validate *)

\* C1: whenever validate_no_cycles runs on a plot whose pipes all name existing
\* steps, it returns Ok exactly if the step graph of the non-empty pipes is
\* acyclic; a step piping from itself is a cycle and is rejected.
C1_NoCyclesOkIffAcyclic ==
    NoCyclesRan =>
        /\ validation.cycles.res.status \in {"ok", "err"}
        /\ (validation.cycles.res.status = "ok") <=> Acyclic(plot)
        /\ (\E v \in StepNames(plot) : <<v, v>> \in PipeEdges(plot))
              => validation.cycles.res.status = "err"

\* a plot with a step that pipes from itself was rejected by validate_no_cycles
C1_Witness ==
    /\ NoCyclesRan
    /\ \E v \in StepNames(plot) : <<v, v>> \in PipeEdges(plot)
    /\ validation.cycles.res.status = "err"

\* C2 (as claimed): the steps listed in the cycle error are exactly the steps
\* in non-trivial strongly connected components.
C2_ReportIsCycleSteps ==
    validation.cycles.res.status = "err" =>
        ListedNames(validation.cycles.res.err[1].msg) = CycleSteps(plot)

\* C2 (amended): the steps listed in the cycle error are exactly the steps that
\* lie on a cycle or are downstream of one.
C2_ReportIsBlockedSteps ==
    validation.cycles.res.status = "err" =>
        /\ validation.cycles.res.err[1].kind = "SystemSetupCauseless"
        /\ ListedNames(validation.cycles.res.err[1].msg) = BlockedSteps(plot)

\* the cycle error lists a step that is only downstream of a cycle
C2_Witness ==
    /\ validation.cycles.res.status = "err"
    /\ \E v \in ListedNames(validation.cycles.res.err[1].msg) : ~OnCycle(plot, v)

\* C3: validate_dependencies_exist returns Ok exactly if every non-empty
\* Pipe.step_name of any step names a step of the plot; pipes with an empty
\* step_name never make it fail.
C3_DependenciesOkIffKnown ==
    validation.deps.status # "none" =>
        /\ validation.deps.status \in {"ok", "err"}
        /\ (validation.deps.status = "ok")
              <=> (\A e \in PipeEdges(plot) : e[1] \in StepNames(plot))

\* a plot with an empty-named pipe and a pipe from an existing step passed
C3_Witness ==
    /\ validation.deps.status = "ok"
    /\ HasEmptyPipe(plot)
    /\ PipeEdges(plot) # {}

----------------------------------------------------------------------------
(* Claims about PlotExecutor::run and run_step *)

IsReturn(e) == e.ev \in {"ok", "err", "panic"}

\* C4: steps run one at a time, a step is started only after run_step returned
\* Ok for each step it pipes from, and no step is started twice.
C4_SequentialAfterParents ==
    \A i \in 1..Len(trace) :
        trace[i].ev = "run_step" =>
            /\ \A q \in ParentsOf(plot, trace[i].step) :
                  \E j \in 1..(i - 1) : trace[j].ev = "ok" /\ trace[j].step = q
            /\ \A k \in 1..(i - 1) :
                  trace[k].ev = "run_step" =>
                      /\ trace[k].step # trace[i].step
                      /\ \E j \in (k + 1)..(i - 1) :
                            trace[j].ev = "ok" /\ trace[j].step = trace[k].step

\* a step with two different parents has been started
C4_Witness ==
    \E i \in 1..Len(trace) :
        /\ trace[i].ev = "run_step"
        /\ Cardinality(ParentsOf(plot, trace[i].step)) >= 2

\* C5: once run_step has failed (also when run_formula failed, as for an exit
\* code other than 0), run_plot has returned that failure, nothing was run
\* after it and pack_outputs was not called.
C5_FailureEndsPlot ==
    \A i \in 1..Len(trace) :
        /\ trace[i].ev = "err" =>
              /\ i = Len(trace)
              /\ pc = "done"
              /\ result = trace[i].res
              /\ \A j \in 1..Len(trace) : trace[j].ev # "pack_outputs"
        /\ (trace[i].ev = "run_formula" /\ trace[i].res.status = "err") =>
              /\ Len(trace) = i + 1
              /\ trace[i + 1].ev = "err"
              /\ trace[i + 1].step = trace[i].step
              /\ trace[i + 1].res.err[1].kind = "SystemRuntimeError"
              /\ trace[i + 1].res.err[1].cause = trace[i].res.err

\* a container exit code of 7 failed a step while another step had not started
C5_Witness ==
    /\ pc = "done"
    /\ trace # <<>>
    /\ Last(trace).ev = "err"
    /\ Last(trace).res.err[1].cause = RunFormulaReturn(ResOk, Some(7)).err
    /\ \E v \in StepNames(plot) :
          \A j \in 1..Len(trace) : trace[j].step # v

\* C6 (as claimed): the formula of a step uses the step's image when the step
\* declares one, and the plot's image only when the step declares none.
C6_StepImageOverrides ==
    \A i \in 1..Len(trace) :
        trace[i].ev = "run_formula" =>
            LET step == StepByName(plot, trace[i].step)
            IN  trace[i].formula[1].image =
                    (IF step.image # None THEN step.image[1] ELSE plot.image[1])

\* C7: when neither the plot nor the step declares an image, run_step returns
\* SystemSetupCauseless "invalid plot (step '<name>'): image required" and
\* run_formula is not called for the step.
C7_ImageRequired ==
    \A i \in 1..Len(trace) :
        (/\ IsReturn(trace[i])
         /\ plot.image = None
         /\ StepByName(plot, trace[i].step).image = None) =>
            /\ trace[i].res =
                  ResErr(Err("SystemSetupCauseless",
                             <<"invalid plot (step '", trace[i].step, "'): image required">>,
                             NoCause))
            /\ \A j \in 1..Len(trace) :
                  ~(trace[j].ev = "run_formula" /\ trace[j].step = trace[i].step)

\* run_step has returned for a step without any image
C7_Witness ==
    \E i \in 1..Len(trace) :
        /\ IsReturn(trace[i])
        /\ plot.image = None
        /\ StepByName(plot, trace[i].step).image = None

----------------------------------------------------------------------------
(* Claims about formula lowering and run_formula *)

\* the inputs the claim says are lowered: "$name" with a literal, "/..." with
\* a read-only or read-write mount
Lowerable(e) ==
    \/ Len(e.port) >= 2 /\ e.port[1] = "$" /\ e.input.kind = "Literal"
    \/ /\ Len(e.port) >= 1 /\ e.port[1] = "/"
       /\ e.input.kind = "Mount" /\ e.input.mode \in {"ReadOnly", "ReadWrite"}

\* "/..." with a ware or an overlay mount: left unimplemented
Unimplemented(e) ==
    /\ Len(e.port) >= 1 /\ e.port[1] = "/"
    /\ \/ e.input.kind = "Ware"
       \/ e.input.kind = "Mount" /\ e.input.mode = "Overlay"

\* the message the specification gives for an input that is not lowered
ExpectedMsg(e) ==
    IF e.port = <<>> \/ e.port[1] \notin {"$", "/"}
    THEN <<"invalid formula input '">> \o e.port \o <<"'">>
    ELSE IF e.port[1] = "$"
    THEN IF Len(e.port) = 1 THEN <<"environment variable with empty name">>
         ELSE <<"value of environment variable '">> \o Tail(e.port) \o <<"' has to be literal">>
    ELSE <<"formula input '">> \o e.port
            \o <<"': 'literal' not supported, use 'ware' or 'mount'">>

\* index of the first input that is not lowerable, 0 when there is none
FirstBad(inputs) ==
    IF \A j \in 1..Len(inputs) : Lowerable(inputs[j]) THEN 0
    ELSE CHOOSE j \in 1..Len(inputs) :
            ~Lowerable(inputs[j]) /\ \A k \in 1..(j - 1) : Lowerable(inputs[k])

HasLowered == lowered.res.status # "none"

\* C8 (as claimed): the input loop succeeds exactly if every input is "$name"
\* with a literal or "/..." with a read-only or read-write mount, and every
\* other input makes it return an error of the message family, never abort.
C8_ErrorForEveryOtherInput ==
    HasLowered =>
        LET k == FirstBad(formula.inputs) IN
        IF k = 0 THEN lowered.res.status = "ok"
        ELSE lowered.res = SetupErr(ExpectedMsg(formula.inputs[k]))

\* C8 (amended): the same, except that "/..." with a ware or an overlay mount
\* aborts (todo!) instead of returning an error.
C8_ErrorOrUnimplemented ==
    HasLowered =>
        LET k == FirstBad(formula.inputs) IN
        IF k = 0 THEN lowered.res.status = "ok" /\ lowered.upto = Len(formula.inputs)
        ELSE /\ lowered.upto = k
             /\ IF Unimplemented(formula.inputs[k]) THEN lowered.res = ResPanic
                ELSE lowered.res = SetupErr(ExpectedMsg(formula.inputs[k]))

\* the loop lowered a mount and then met "$" alone
C8_Witness ==
    /\ HasLowered
    /\ Len(formula.inputs) = 2
    /\ Lowerable(formula.inputs[1])
    /\ formula.inputs[2].port = <<"$">>
    /\ lowered.res.status = "err"

\* decimal strings of the exit codes, written out
ExpectedCause(code) ==
    CASE code = None -> <<"None">>
      [] code = Some(7) -> <<"7">>
      [] code = Some(137) -> <<"1", "3", "7">>
      [] code = Some(-1) -> <<"-", "1">>
      [] OTHER -> <<"0">>

\* C9: run_formula returns Ok exactly if the executor returned Ok and the event
\* handler captured Some(0); with any other captured value, None included, it
\* returns SystemRuntimeError whose cause is the decimal code or "None".
C9_OkIffExitZero ==
    fpc = "done" =>
        /\ (fresult.status = "ok") <=> (exec_result.status = "ok" /\ captured = Some(0))
        /\ (exec_result.status = "ok" /\ captured # Some(0)) =>
              fresult = ResErr(Err("SystemRuntimeError",
                                   <<"container terminated non-zero exit code">>,
                                   StrCause(ExpectedCause(captured))))

\* the stream closed without an exit code and run_formula returned the None error
C9_Witness ==
    /\ fpc = "done"
    /\ exec_result.status = "ok"
    /\ ~ExitEmitted
    /\ emitted # <<>>
    /\ captured = None
    /\ fresult.status = "err"

OutputsBeforeExit ==
    SeqFilter(emitted, {OutputEvent(v) : v \in 1..MaxEvents})

----------------------------------------------------------------------------
(* Claims about Formula::setup_script *)

ScriptPathText == <<"/", ".warpforge.container", "/", "script">>
HostScriptDirText == <<"<temporary_dir>", "/", "run", "/", "script">>

SetupScriptReturnedOk == formula.action.kind = "Script" /\ setup.res.status = "ok"

\* C11 (as claimed): when setup_script has succeeded, the mounts are those of
\* the inputs and exactly one more, a read-only bind mount from
\* <ersatz_dir>/script to /.warpforge.container/script, and the command is
\* [interpreter, "/.warpforge.container/script/run"].
C11_OneReadOnlyScriptMount ==
    SetupScriptReturnedOk =>
        /\ setup.mounts =
              Append(lowered.mounts,
                     [key |-> ScriptPathText,
                      val |-> [kind |-> "bind", host_source |-> HostScriptDirText,
                               sandbox_target |-> ScriptPathText, readonly |-> TRUE]])
        /\ setup.command = <<<<formula.action.interpreter>>, ScriptPathText \o <<"/", "run">>>>

\* something that Path::exists reports sits at <ersatz_dir>/script
ScriptDirPresent ==
    \E e \in ersatz : e.path = HostScriptDirText /\ e.kind \in {"dir", "file"}

\* C12: when <ersatz_dir>/script exists as setup_script is called, the call
\* returns SystemSetupCauseless, has created and written nothing, leaves what
\* is on disk as it was, registers no mount, and Formula::run returns the error.
C12_ExistingScriptDirRejected ==
    [][(/\ fpc = "action"
        /\ fpc' # "action"
        /\ formula.action.kind = "Script"
        /\ ScriptDirPresent) =>
            /\ setup'.res =
                  ResErr(Err("SystemSetupCauseless",
                             <<"script directory already existed when trying to setup script">>,
                             NoCause))
            /\ ersatz' = ersatz
            /\ fs_ops' = fs_ops
            /\ setup'.mounts = lowered.mounts
            /\ setup'.command = <<>>
            /\ exec_result' = setup'.res
            /\ fresult' = setup'.res]_vars

\* setup_script has returned with an older script directory on disk
C12_Witness ==
    /\ formula.action.kind = "Script"
    /\ formula.action.contents # <<>>
    /\ setup.res.status = "err"
    /\ \E e \in ersatz : e.path = HostScriptDirText \o <<"/", "run">> /\ e.content # <<>>

----------------------------------------------------------------------------
(* Further claims about run_step and run_plot *)

\* the step has a gather directive whose packtype is present and not "none"
HasOtherPacktype(step) ==
    \E j \in 1..Len(step.outputs) : step.outputs[j].val.packtype \notin {<<>>, <<"none">>}

PacktypeError(name) ==
    ResErr(Err("SystemSetupCauseless",
               <<"invalid plot (step '", name, "'): output packtype has to be 'none'">>,
               NoCause))

HasEmptyPipeInput(step) ==
    \E j \in 1..Len(step.inputs) :
        step.inputs[j].input.kind = "Pipe" /\ step.inputs[j].input.step_name = ""

RunPlotReturned == pc = "done" /\ result.status \in {"ok", "err"}

NamesInOrder(p) == [i \in 1..Len(p.steps) |-> p.steps[i].name]

IsPrefix(s, t) == Len(s) <= Len(t) /\ s = SubSeq(t, 1, Len(s))

\* the run of a plot as a function of the plot and of the set of steps that do
\* not succeed: a stack of ready steps, the top one runs next, and a step
\* becomes ready when the last step it pipes from has succeeded; steps that
\* become ready together are stacked in insertion order
RECURSIVE Traverse(_, _, _, _, _)
Traverse(p, failing, stack, waiting, order) ==
    IF stack = <<>> THEN order
    ELSE LET v == stack[Len(stack)]
             rest == SubSeq(stack, 1, Len(stack) - 1)
             left == [w \in DOMAIN waiting |-> waiting[w] \ {v}]
             ready == SelectSeq(NamesInOrder(p),
                                LAMBDA w : v \in waiting[w] /\ left[w] = {})
         IN  IF v \in failing THEN Append(order, v)
             ELSE Traverse(p, failing, rest \o ready, left, Append(order, v))

FunctionalOrder(p, failing) ==
    Traverse(p, failing,
             SelectSeq(NamesInOrder(p), LAMBDA w : ParentsOf(p, w) = {}),
             [w \in StepNames(p) |-> ParentsOf(p, w)], <<>>)

\* what the trace shows: the steps started, the steps logged as done, the
\* steps that did not succeed
StartedOrder ==
    LET starts == SelectSeq(trace, LAMBDA e : e.ev = "run_step")
    IN  [i \in 1..Len(starts) |-> starts[i].step]
LoggedOrder ==
    LET oks == SelectSeq(trace, LAMBDA e : e.ev = "ok")
    IN  [i \in 1..Len(oks) |-> oks[i].step]
FailedSteps == {trace[i].step : i \in {k \in 1..Len(trace) : trace[k].ev \in {"err", "panic"}}}

\* the outputs of p in insertion order, as the packer is to receive them
PackerInput(p) ==
    [j \in 1..Len(p.outputs) |->
        [name |-> p.outputs[j].key,
         host_path |-> <<"<temp>", p.outputs[j].val.step_name, "outputs", p.outputs[j].val.label>>,
         packtype |-> "Tar"]]

\* C15: the order in which steps are started, the order of the "step '<name>'"
\* log lines and the list handed to the packer are functions of the plot and
\* of the per-step outcomes alone, so two runs that agree on these agree on
\* all three.
C15_RunIsFunctionOfPlot ==
    trace # <<>> =>
        LET expected == FunctionalOrder(plot, FailedSteps) IN
        /\ IsPrefix(StartedOrder, expected)
        /\ IsPrefix(LoggedOrder, StartedOrder)
        /\ pc = "done" => StartedOrder = expected
        /\ \A i \in 1..Len(trace) :
              trace[i].ev = "pack_outputs" =>
                  /\ i = Len(trace)
                  /\ LoggedOrder = expected
                  /\ trace[i].outputs = PackerInput(plot)

\* a plot with two outputs, where two steps were ready at once, ran to the packer
C15_Witness ==
    /\ trace # <<>>
    /\ Last(trace).ev = "pack_outputs"
    /\ Len(Last(trace).outputs) = 2
    /\ Cardinality({v \in StepNames(plot) : ParentsOf(plot, v) = {}}) >= 2
    /\ Len(StartedOrder) >= 3

----------------------------------------------------------------------------
(* Claims about the JSON form *)

RoundTripDone == jpc = "done"

\* C16 (as claimed): a round trip that starts from a value ends with the same
\* value, and a round trip that starts from any document the parser accepts
\* ends with the same document (documents are compared modulo whitespace).
C16_RoundTripBothWays ==
    /\ (jpc = "rejected") => json_start.style = "NoDiscriminant"
    /\ RoundTripDone =>
          /\ json_start.kind = "value" => json_value = json_start.value
          /\ json_start.kind = "text" => json_text = json_start.text

\* C16 (amended): a round trip that starts from a value ends with the same
\* value, variants, payloads and order of the map entries included; one that
\* starts from a document ends with the same document if the document is
\* written as the serializer writes it, and otherwise with a document that
\* parses to the same value; only a string without discriminant is rejected.
C16_RoundTripCanonical ==
    /\ (jpc = "rejected") => json_start.style = "NoDiscriminant"
    /\ RoundTripDone =>
          /\ json_start.kind = "value" => json_value = json_start.value
          /\ (json_start.kind = "text" /\ json_start.style = "Canonical")
                => json_text = json_start.text
          /\ json_start.kind = "text" =>
                /\ json_start.style # "NoDiscriminant"
                /\ ParseJson(json_text[1]) = POk(json_value[1])
                /\ EmitJson(json_value[1]) = json_text[1]

\* a value with an overlay mount before a literal that holds a ":" has made
\* the round trip
C16_Witness ==
    /\ RoundTripDone
    /\ json_start.kind = "value"
    /\ Len(json_value[1].formula.inputs) = 2
    /\ json_value[1].formula.inputs[1].input.mode = "Overlay"
    /\ json_value[1].formula.inputs[2].input.value = <<"a", ":", "b">>
    /\ json_value[1].formula.outputs # <<>>

----------------------------------------------------------------------------
(* Further claims about PlotGraph *)

SubPlotSteps(p) == {p.steps[i].name : i \in {k \in 1..Len(p.steps) : p.steps[k].kind = "Plot"}}

GraphBuilt == graph.status # "none"

\* C17 (as claimed): for a plot with a sub-plot step, PlotGraph::new returns a
\* graph that has every step as a node, the sub-plot included, and run_plot
\* aborts for the sub-plot only in run_step, once that step has been started.
C17_SubPlotRejectedWhenReached ==
    (GraphBuilt /\ SubPlotSteps(plot) # {}) =>
        /\ graph.status = "ok"
        /\ MapKeys(graph.nodes) = [i \in 1..Len(plot.steps) |-> plot.steps[i].name]
        /\ result.status = "panic" =>
              \E i \in 1..Len(trace) :
                  trace[i].ev = "run_step" /\ trace[i].step \in SubPlotSteps(plot)

\* position of the step named v in plot.steps
StepPosition(p, v) == CHOOSE i \in 1..Len(p.steps) : p.steps[i].name = v

\* the names of the message in the order in which it lists them
ListedInOrder(msg) == [k \in 1..((Len(msg) - 1) \div 2) |-> msg[2 * k]]

\* C18 (as claimed): the steps named in the cycle report appear in the
\* relative order in which they appear in plot.steps.
C18_ReportInInsertionOrder ==
    validation.cycles.res.status = "err" =>
        LET listed == ListedInOrder(validation.cycles.res.err[1].msg) IN
        \A i, j \in 1..Len(listed) :
            i < j => StepPosition(plot, listed[i]) < StepPosition(plot, listed[j])

AllStepsSucceeded ==
    /\ trace # <<>>
    /\ pc \in {"loop", "done"}
    /\ next_steps = <<>>
    /\ \A i \in 1..Len(trace) : trace[i].ev \notin {"err", "panic"}

\* C19: for a plot that passed validate(), the steps are started in the order
\* in which validate_no_cycles appended them to `order`: at any time the
\* started steps are a prefix of `order`, and all of `order` once every step
\* has succeeded.
C19_RunOrderIsValidationOrder ==
    trace # <<>> =>
        /\ validation.res.status = "ok"
        /\ IsPrefix(StartedOrder, validation.cycles.order)
        /\ AllStepsSucceeded =>
              /\ StartedOrder = validation.cycles.order
              /\ LoggedOrder = validation.cycles.order

\* every step of a plot of four steps has succeeded, one of them with two
\* parents and two of them ready at the start
C19_Witness ==
    /\ AllStepsSucceeded
    /\ Len(StartedOrder) = 4
    /\ Cardinality({v \in StepNames(plot) : ParentsOf(plot, v) = {}}) = 2
    /\ \E v \in StepNames(plot) : Cardinality(ParentsOf(plot, v)) = 2

\* C20: validate_no_cycles returns, with Ok or with the cycle error, after at
\* most |nodes| turns of its loop; every turn but a failing last one appends
\* one node to `order`, and no node is appended twice.
C20_NoCyclesTerminates ==
    NoCyclesRan =>
        LET c == validation.cycles IN
        /\ c.res.status \in {"ok", "err"}
        /\ c.iters <= Len(graph.nodes)
        /\ \A i, j \in 1..Len(c.order) : i # j => c.order[i] # c.order[j]
        /\ \A i \in 1..Len(c.order) : c.order[i] \in StepNames(plot)
        /\ c.res.status = "ok" => c.iters = Len(c.order) /\ Len(c.order) = Len(graph.nodes)
        /\ c.res.status = "err" => c.iters = Len(c.order) + 1 /\ Len(c.order) < Len(graph.nodes)

\* validate_no_cycles found a cycle in its last possible turn, after it had
\* appended all the other steps
C20_Witness ==
    /\ NoCyclesRan
    /\ validation.cycles.res.status = "err"
    /\ Len(graph.nodes) = 4
    /\ validation.cycles.iters = 4

\* the names a graph can hold: step names, unknown names, the empty name
GraphNames == {NameTable[i] : i \in 1..Len(NameTable)} \cup {""}

InMap(m, k, x) == MapHas(m, k) /\ Contains(MapGet(m, k), x)

\* C21: PlotGraph::new stores every edge in both maps (b is in children[a]
\* exactly when a is in parents[b]); validate_no_cycles never indexes its
\* working map with a child that has no entry, and while PlotExecutor::run
\* loops every child of every node has an entry in its working map.
C21_EdgesSymmetric ==
    graph.status = "ok" =>
        /\ \A a, b \in GraphNames :
              InMap(graph.children, a, b) <=> InMap(graph.parents, b, a)
        /\ validation.cycles.res.status # "panic"
        /\ pc \in {"loop", "step"} =>
              /\ MapKeys(parents) = MapKeys(graph.parents)
              /\ \A i \in 1..Len(graph.children) :
                    \A j \in 1..Len(graph.children[i].val) :
                        MapHas(parents, graph.children[i].val[j])
        /\ (pc = "done" /\ result.status = "panic") =>
              /\ trace # <<>>
              /\ Last(trace).ev = "panic"

\* two steps have run and their children were relaxed, in a graph where one
\* step has two parents and one step has two children
C21_Witness ==
    /\ graph.status = "ok"
    /\ pc = "loop"
    /\ completed_count >= 2
    /\ \E i \in 1..Len(graph.parents) : Len(graph.parents[i].val) = 2
    /\ \E i \in 1..Len(graph.children) : Len(graph.children[i].val) = 2

\* the inputs of the step s that are pipes from a named step
NamedPipes(s) == {j \in 1..Len(s.inputs) : /\ s.inputs[j].input.kind = "Pipe"
                                            /\ s.inputs[j].input.step_name # ""}

\* before position k, run_formula was called for the step named v with the
\* output_path `path`, and run_step returned Ok for it
CompletedWith(k, v, path) ==
    \E i, j \in 1..(k - 1) :
        /\ i < j
        /\ trace[i].ev = "run_formula" /\ trace[i].step = v
        /\ trace[i].output_path = Some(path)
        /\ trace[j].ev = "ok" /\ trace[j].step = v

\* C22: a step input Pipe{step_name: P, label: L} with a non-empty P reaches
\* run_formula as the read-only mount of <temp>/P/outputs/L, a path directly
\* under the output_path that run_formula was given for step P; and whenever
\* run_step is entered for a step, every step its pipes name has returned Ok.
C22_PipeMountUnderProducerOutput ==
    \A k \in 1..Len(trace) :
        trace[k].ev \in {"run_step", "run_formula"} =>
            LET s == StepByName(plot, trace[k].step) IN
            \A j \in NamedPipes(s) :
                LET pipe == s.inputs[j].input
                    producer == <<"<temp>", pipe.step_name, "outputs">>
                IN  /\ CompletedWith(k, pipe.step_name, producer)
                    /\ trace[k].ev = "run_formula" =>
                          LET lowered_input == trace[k].formula[1].inputs[j] IN
                          /\ lowered_input.port = s.inputs[j].port
                          /\ lowered_input.input.kind = "Mount"
                          /\ lowered_input.input.mode = "ReadOnly"
                          /\ lowered_input.input.value = producer \o <<pipe.label>>

\* run_formula was called for a step that pipes from two other steps
C22_Witness ==
    \E k \in 1..Len(trace) :
        /\ trace[k].ev = "run_formula"
        /\ Cardinality({StepByName(plot, trace[k].step).inputs[j].input.step_name :
                           j \in NamedPipes(StepByName(plot, trace[k].step))}) = 2

\* positions of the trace that hold an event `ev` of the step named v
EventsOf(ev, v) == {i \in 1..Len(trace) : trace[i].ev = ev /\ trace[i].step = v}

PackCalls == {i \in 1..Len(trace) : trace[i].ev = "pack_outputs"}

\* C23: pack_outputs is called at most once per run_plot, as the last thing
\* run does, and only when the plot passed validate() and each of its steps
\* was started once and returned Ok once, none failing; it receives one
\* IntermediateOutput per plot output, in the order of plot.outputs, each
\* with packtype Tar and host path <temp>/<step_name>/outputs/<label>.
C23_PackOnceAfterAllSteps ==
    /\ Cardinality(PackCalls) <= 1
    /\ \A k \in PackCalls :
          LET outs == trace[k].outputs IN
          /\ k = Len(trace)
          /\ pc = "done"
          /\ validation.res.status = "ok"
          /\ \A v \in StepNames(plot) :
                /\ Cardinality(EventsOf("run_step", v)) = 1
                /\ Cardinality(EventsOf("ok", v)) = 1
          /\ \A i \in 1..Len(trace) : trace[i].ev \notin {"err", "panic"}
          /\ completed_count = Len(plot.steps)
          /\ Len(outs) = Len(plot.outputs)
          /\ \A j \in 1..Len(outs) :
                /\ outs[j].name = plot.outputs[j].key
                /\ outs[j].packtype = "Tar"
                /\ outs[j].host_path = <<"<temp>", plot.outputs[j].val.step_name, "outputs",
                                          plot.outputs[j].val.label>>

\* the packer was called for a plot of three steps or more, one of them the
\* child of another, with an output whose name differs from its pipe's label
C23_Witness ==
    /\ PackCalls # {}
    /\ Len(plot.steps) >= 3
    /\ graph.children # <<>>
    /\ \E j \in 1..Len(plot.outputs) : plot.outputs[j].key # plot.outputs[j].val.label

\* the outputs of p that pipe from a step p does not have
UnknownOutputs(p) ==
    {j \in 1..Len(p.outputs) : p.outputs[j].val.step_name \notin StepNames(p)}

WithoutOutputs(p) == [p EXCEPT !.outputs = <<>>]

\* C25: the outputs of a plot play no part in validation. For a plot with an
\* output that pipes from an unknown step, PlotGraph::new and validate()
\* give what they give for the same plot without outputs; a run in which
\* validation passed, the temporary directory was made and no step failed
\* ends in pack_outputs; and pack_outputs receives the host path
\* <temp>/<unknown>/outputs/<label>, which lies under no output_path that
\* run_formula was given.
C25_OutputsNotValidated ==
    UnknownOutputs(plot) # {} =>
        /\ graph.status # "none" =>
              /\ graph = PlotGraphNew(WithoutOutputs(plot))
              /\ graph.status = "ok" => validation = validate(graph)
        /\ (pc = "done" /\ validation.res.status = "ok" /\ temp_dir # "none"
                /\ \A i \in 1..Len(trace) : trace[i].ev \notin {"err", "panic"}) =>
              PackCalls # {}
        /\ \A k \in PackCalls :
              /\ \A v \in StepNames(plot) : EventsOf("ok", v) # {}
              /\ \A j \in UnknownOutputs(plot) :
                    LET path == trace[k].outputs[j].host_path IN
                    /\ path = <<"<temp>", plot.outputs[j].val.step_name, "outputs",
                                 plot.outputs[j].val.label>>
                    /\ \A i \in 1..Len(trace) :
                          trace[i].ev = "run_formula" =>
                              ~IsPrefix(trace[i].output_path[1], path)

\* the packer was called with such a path after three steps or more had run
C25_Witness ==
    /\ UnknownOutputs(plot) # {}
    /\ PackCalls # {}
    /\ Len(plot.steps) >= 3
    /\ graph.children # <<>>

----------------------------------------------------------------------------
(* Claims about the event channel of run_formula *)

\* C24: the executor and the event handler never wait for each other for
\* ever. A send that waits is in the end taken by the channel or fails
\* because the receiver is gone; the event handler task, once spawned,
\* returns; and once the executor has returned, run_formula returns.
C24_ChannelNeverDeadlocks ==
    /\ sending ~> ~sending
    /\ (consumer = "running") ~> (consumer = "finished")
    /\ (exec_result.status # "none") ~> (fpc = "done")

\* the executor waits in a send while the channel holds all the events it has room for
C24_Witness ==
    /\ sending
    /\ Len(channel) = ChannelCapacity
    /\ receiver_open

\* a send failed for an event that came after the ExitCode
C24_WitnessSendFailed ==
    /\ ~sending
    /\ AfterExit >= 1
    /\ Len(attempts) > Len(emitted)

----------------------------------------------------------------------------
(* Claims about validate_formula *)

\* the bytes of the text that a repair wrote over
RepairedOffsets == {repairs[i].offset : i \in 1..Len(repairs)}

\* C26: the trailing comma recovery of validate_formula makes at most
\* MAX_TRAILING_COMMA (20) repairs and the loop runs on only while fewer
\* were made; the error list it returns never holds more than 20 entries;
\* every repair writes a space over one byte that was a comma, so that the
\* working buffer is as long as the text and differs from it in the
\* repaired bytes alone; and Ok is returned only when no error was
\* recorded: a text that needed a repair is answered with Err(Invalid).
C26_TrailingCommaRecoveryBounded ==
    /\ Len(repairs) <= MAX_TRAILING_COMMA
    /\ vpc \in {"loop", "deserialize"} => Len(repairs) < MAX_TRAILING_COMMA
    /\ Len(errors) <= MAX_TRAILING_COMMA
    /\ Len(vresult.errors) <= MAX_TRAILING_COMMA
    /\ \A i \in 1..Len(repairs) : repairs[i].before = ","
    /\ Cardinality(RepairedOffsets) = Len(repairs)
    /\ Len(WorkingBuffer) = Len(source)
    /\ \A k \in 1..Len(source) :
          WorkingBuffer[k] = IF k - 1 \in RepairedOffsets THEN " " ELSE source[k]
    /\ vresult.status = "ok" => errors = <<>> /\ repairs = <<>>
    /\ vpc = "done" /\ repairs # <<>> => vresult.status = "invalid" /\ vresult.errors # <<>>

\* the loop gave up after its twentieth repair
C26_Witness ==
    /\ vpc = "done"
    /\ Len(repairs) = MAX_TRAILING_COMMA
    /\ Len(vresult.errors) = MAX_TRAILING_COMMA
    /\ vresult.status = "invalid"

\* fewer repairs made the text parse, and the typed parse added an error
C26_WitnessRepaired ==
    /\ vpc = "done"
    /\ repairs # <<>>
    /\ Len(vresult.errors) = Len(repairs) + 1

\* a text without fault is accepted
C26_WitnessAccepted ==
    /\ vresult.status = "ok"
    /\ Len(source) > 0

====
